---- MODULE Spec2Model ----
(***************************************************************************)
(* koboapi: flattening of KoBoToolbox survey submissions into relational   *)
(* tables.  The module models StructureParser (structure_parser.py),       *)
(* DataProcessor (data_processor.py) and the schema-driven flattening of   *)
(* builder.py (XLSFormDataStructureBuilder and                             *)
(* create_dataframes_from_submissions).                                    *)
(*                                                                         *)
(* Representation.                                                         *)
(*  - A '/'-separated name or key ("g1/g2/q") is the sequence of its       *)
(*    segments <<"g1","g2","q">>; name.count('/') is Len - 1,              *)
(*    name.split('/')[-1] is the last segment, prefix + name is Append.    *)
(*    The empty string "" (root path) is the empty sequence.               *)
(*  - Column names and synthetic ids are strings, built with \o as the     *)
(*    f-strings of the source build them.                                  *)
(*  - A Python dict is the sequence of its items, in insertion order, each *)
(*    item [k |-> key, v |-> value] (keys unique).                         *)
(*  - A JSON value is tagged: Scalar(s), List(items), None.                *)
(*  - A row (dict column -> value) is a function from column names to      *)
(*    values.                                                              *)
(***************************************************************************)
EXTENDS Integers, Sequences, FiniteSets, TLC

VARIABLES
    form,         \* the form description (XLSForm JSON)
    self_sequence, \* StructureParser._sequence
    parses,       \* how often parse() was called
    structure,    \* the SurveyStructure of the last parse()
    submissions,  \* the submissions received
    dp,           \* the last call of DataProcessor.process_submissions
    dp_prev,      \* the call of process_submissions before the last one
    bd,           \* the last call of create_dataframes_from_submissions
    gd,           \* the last call of Kobo.get_data: its arguments and params
    client,       \* the Client: max_retries and the request being made
    xb,           \* an XLSFormDataStructureBuilder and the calls made on it
    ex,           \* the last call of DataExporter.to_excel
    gq            \* a call of Kobo.get_questions: the items read, its locals

vars == <<form, self_sequence, parses, structure, submissions, dp, dp_prev, bd,
          gd, client, xb, ex, gq>>

\* the variables of the flattening pipeline, and those of the API wrapper
pipeline == <<form, self_sequence, parses, structure, submissions, dp, dp_prev, bd>>

api == <<gd, client>>

\* the builder object, the exporter call and the get_questions call
objects == <<xb, ex, gq>>

(***************************************************************************)
(* Bounds                                                                  *)
(***************************************************************************)
\* most submissions in one batch
MaxSubs == 2

\* most calls of parse() on one parser
MaxParses == 2

(***************************************************************************)
(* Values and dicts                                                        *)
(***************************************************************************)
None == [kind |-> "none"]

Scalar(s) == [kind |-> "scalar", v |-> s]

List(items) == [kind |-> "list", items |-> items]

\* isinstance(value, list)
IsList(value) == value.kind = "list"

Range(s) == {s[i] : i \in DOMAIN s}

Last(s) == s[Len(s)]

\* the keys of a dict, as a set
Keys(d) == {d[i].k : i \in DOMAIN d}

\* key in d
HasKey(d, key) == \E i \in DOMAIN d : d[i].k = key

\* d[key], for a key of d
Lookup(d, key) == d[CHOOSE i \in DOMAIN d : d[i].k = key].v

\* d.get(key, default)
Get(d, key, default) == IF HasKey(d, key) THEN Lookup(d, key) ELSE default

\* d[key] = value: an existing key keeps its position, a new key is appended
DictSet(d, key, value) ==
    IF HasKey(d, key)
    THEN [i \in DOMAIN d |-> IF d[i].k = key THEN [k |-> key, v |-> value] ELSE d[i]]
    ELSE Append(d, [k |-> key, v |-> value])

\* is p a prefix of s (both sequences of segments)
IsPrefix(p, s) == Len(p) <= Len(s) /\ SubSeq(s, 1, Len(p)) = p

\* s.startswith(p + "/") on '/'-separated names: p is a proper prefix of s
StartsWithSlash(s, p) == Len(p) > 0 /\ Len(p) < Len(s) /\ IsPrefix(p, s)

(***************************************************************************)
(* Form descriptions (the input of StructureParser and of the builder).    *)
(* A level is [questions |-> items, groups |-> items]; an item is          *)
(* [name |-> n, data |-> record]; a key the description leaves out is a    *)
(* field the record does not have.                                         *)
(***************************************************************************)
\* spec.md scenarios "flat case" and "single repeat level"
FormMembers ==
    [questions |-> << [name |-> "age", data |-> [type |-> "integer"]] >>,
     groups |-> << [name |-> "members",
                    data |-> [label |-> "Members", repeat |-> TRUE,
                              questions |-> << [name |-> "name",
                                                data |-> [type |-> "text", label |-> "Name"]] >>]] >>]

\* spec.md scenario "two-level nesting"
FormHousehold ==
    [questions |-> << [name |-> "region", data |-> [type |-> "text"]] >>,
     groups |-> << [name |-> "household",
                    data |-> [label |-> "Hogar", repeat |-> TRUE,
                              questions |-> << [name |-> "address", data |-> [type |-> "text"]] >>,
                              groups |-> << [name |-> "person",
                                             data |-> [repeat |-> TRUE,
                                                       questions |-> << [name |-> "pname",
                                                                         data |-> [type |-> "text"]] >>]] >>]] >>]

\* three repeat groups nested in one another, as Kobo.get_questions emits them
\* (every node carries its sequence)
FormThree ==
    [questions |-> <<>>,
     groups |-> << [name |-> "g1",
                    data |-> [label |-> "", sequence |-> 0, repeat |-> TRUE,
                              questions |-> << [name |-> "q1",
                                                data |-> [type |-> "text", sequence |-> 1,
                                                          label |-> "q1", required |-> FALSE]] >>,
                              groups |-> << [name |-> "g2",
                                             data |-> [label |-> "", sequence |-> 2, repeat |-> TRUE,
                                                       questions |-> << [name |-> "q2",
                                                                         data |-> [type |-> "text", sequence |-> 3,
                                                                                   label |-> "q2", required |-> TRUE]] >>,
                                                       groups |-> << [name |-> "g3",
                                                                      data |-> [label |-> "", sequence |-> 4, repeat |-> TRUE,
                                                                                questions |-> << [name |-> "q3",
                                                                                                  data |-> [type |-> "select_one", sequence |-> 5,
                                                                                                            label |-> "q3", required |-> FALSE,
                                                                                                            list_name |-> "yn"]] >>,
                                                                                groups |-> <<>>]] >>]] >>]] >>]

\* plain (non-repeat) groups: a repeat group inside one, two plain groups
\* whose questions share their last segment, and a question of a plain group
\* that shares its last segment with a root question
FormVivienda ==
    [questions |-> << [name |-> "barrio", data |-> [type |-> "text"]] >>,
     groups |-> << [name |-> "vivienda",
                    data |-> [label |-> "Vivienda", repeat |-> FALSE,
                              questions |-> << [name |-> "material", data |-> [type |-> "text"]] >>,
                              groups |-> << [name |-> "rooms",
                                             data |-> [label |-> "Rooms", repeat |-> TRUE,
                                                       questions |-> << [name |-> "area",
                                                                         data |-> [type |-> "decimal"]] >>]] >>]],
                   [name |-> "techo",
                    data |-> [questions |-> << [name |-> "material", data |-> [type |-> "text"]],
                                               [name |-> "barrio", data |-> [type |-> "text"]] >>]] >>]

\* a hand-written description (spec.md section 6: "sequence?" is optional on
\* every node): some nodes declare their sequence, not in document order
FormDeclared ==
    [questions |-> << [name |-> "a", data |-> [type |-> "text", sequence |-> 1]],
                      [name |-> "b", data |-> [type |-> "text"]] >>,
     groups |-> << [name |-> "zeta",
                    data |-> [repeat |-> TRUE, sequence |-> 5,
                              questions |-> << [name |-> "x", data |-> [type |-> "text"]] >>]],
                   [name |-> "alfa",
                    data |-> [repeat |-> TRUE, sequence |-> 3,
                              questions |-> << [name |-> "y", data |-> [type |-> "text"]] >>]] >>]

\* a question and a repeat group of the same level under one name
FormCollide ==
    [questions |-> << [name |-> "tag", data |-> [type |-> "text"]],
                      [name |-> "visits", data |-> [type |-> "integer"]] >>,
     groups |-> << [name |-> "visits",
                    data |-> [repeat |-> TRUE,
                              questions |-> << [name |-> "date", data |-> [type |-> "date"]] >>]] >>]

Forms == {FormMembers, FormHousehold, FormThree, FormVivienda, FormDeclared, FormCollide}

(***************************************************************************)
(* Submissions, in the shape the KoBoToolbox API returns them: a scalar    *)
(* keyed by the full path of its question, a repeat group an array keyed   *)
(* by the full path of the group, inside the element of the enclosing      *)
(* repeat group.                                                           *)
(***************************************************************************)
It(k, v) == [k |-> k, v |-> Scalar(v)]

Arr(k, items) == [k |-> k, v |-> List(items)]

MembersSubs(id) ==
    { \* spec.md "single repeat level"
      << It(<<"_id">>, id), It(<<"age">>, "30"),
         Arr(<<"members">>, << << It(<<"members", "name">>, "Ana") >>,
                               << It(<<"members", "name">>, "Ben") >> >>) >>,
      \* spec.md "absent group"
      << It(<<"_id">>, id), It(<<"age">>, "41"), It(<<"_status">>, "ok"),
         Arr(<<"_attachments">>, <<>>) >>,
      \* an empty array, no answer to age
      << It(<<"_id">>, id), Arr(<<"members">>, <<>>) >>,
      \* no _id, and a field the form does not declare
      << It(<<"meta", "instanceID">>, id), It(<<"age">>, "7"),
         Arr(<<"members">>, << << It(<<"members", "name">>, "Eva"),
                                  It(<<"members", "nick">>, "E") >> >>) >>,
      \* a scalar where the array of the group is expected
      << It(<<"_id">>, id), It(<<"age">>, "55"), It(<<"members">>, "oops") >> }

Person(n) == << It(<<"household", "person", "pname">>, n) >>

HouseholdSubs(id) ==
    { \* spec.md "two-level nesting": 2 households with 1 and 2 persons
      << It(<<"_id">>, id), It(<<"region">>, "N"),
         Arr(<<"household">>,
             << << It(<<"household", "address">>, "a1"),
                   Arr(<<"household", "person">>, << Person("p1") >>) >>,
                << It(<<"household", "address">>, "a2"),
                   Arr(<<"household", "person">>, << Person("p2"), Person("p3") >>) >> >>) >>,
      \* 3 households: an empty person array, no person key, 1 person
      << It(<<"_id">>, id),
         Arr(<<"household">>,
             << << It(<<"household", "address">>, "b1"),
                   Arr(<<"household", "person">>, <<>>) >>,
                << It(<<"household", "address">>, "b2") >>,
                << Arr(<<"household", "person">>, << Person("p4") >>) >> >>) >>,
      \* no household at all
      << It(<<"_id">>, id), It(<<"region">>, "S") >> }

G3(v) == << It(<<"g1", "g2", "g3", "q3">>, v) >>

ThreeSubs(id) ==
    { << It(<<"_id">>, id),
         Arr(<<"g1">>,
             << << It(<<"g1", "q1">>, "x1"),
                   Arr(<<"g1", "g2">>,
                       << << It(<<"g1", "g2", "q2">>, "y1"),
                             Arr(<<"g1", "g2", "g3">>, << G3("z1"), G3("z2") >>) >> >>) >>,
                << It(<<"g1", "q1">>, "x2"),
                   Arr(<<"g1", "g2">>,
                       << << It(<<"g1", "g2", "q2">>, "y2") >>,
                          << It(<<"g1", "g2", "q2">>, "y3"),
                             Arr(<<"g1", "g2", "g3">>, << G3("z3") >>) >> >>) >> >>) >>,
      << It(<<"_id">>, id), Arr(<<"g1">>, << << It(<<"g1", "q1">>, "x3") >> >>) >>,
      << It(<<"_id">>, id) >> }

ViviendaSubs(id) ==
    { << It(<<"_id">>, id), It(<<"barrio">>, "centro"),
         It(<<"vivienda", "material">>, "brick"), It(<<"techo", "material">>, "zinc"),
         Arr(<<"vivienda", "rooms">>, << << It(<<"vivienda", "rooms", "area">>, "9") >>,
                                         << It(<<"vivienda", "rooms", "area">>, "12") >> >>) >>,
      << It(<<"_id">>, id), It(<<"techo", "material">>, "tile"),
         It(<<"vivienda", "material">>, "wood"), It(<<"barrio">>, "sur"),
         It(<<"techo", "barrio">>, "norte"), Arr(<<"_tags">>, <<>>) >>,
      << It(<<"_id">>, id), Arr(<<"vivienda", "rooms">>, <<>>) >> }

DeclaredSubs(id) ==
    { << It(<<"_id">>, id), It(<<"a">>, "1"), It(<<"b">>, "2"),
         Arr(<<"alfa">>, << << It(<<"alfa", "y">>, "y1") >> >>),
         Arr(<<"zeta">>, << << It(<<"zeta", "x">>, "x1") >>, << It(<<"zeta", "x">>, "x2") >> >>) >>,
      << It(<<"_id">>, id), It(<<"b">>, "3"),
         Arr(<<"alfa">>, << << It(<<"alfa", "y">>, "y2") >> >>) >> }

CollideSubs(id) ==
    { << It(<<"_id">>, id), It(<<"tag">>, "t"),
         Arr(<<"visits">>, << << It(<<"visits", "date">>, "d1") >> >>) >>,
      << It(<<"_id">>, id), It(<<"tag">>, "u") >> }

\* the submissions a form can receive, with the given submission id
SubsOf(f, id) ==
    IF f = FormMembers THEN MembersSubs(id)
    ELSE IF f = FormHousehold THEN HouseholdSubs(id)
    ELSE IF f = FormThree THEN ThreeSubs(id)
    ELSE IF f = FormVivienda THEN ViviendaSubs(id)
    ELSE IF f = FormDeclared THEN DeclaredSubs(id)
    ELSE CollideSubs(id)

(***************************************************************************)
(* StructureParser (structure_parser.py)                                   *)
(***************************************************************************)
\* data.get(field, default) on a description record
Field(data, field, default) == IF field \in DOMAIN data THEN data[field] ELSE default

\* Question with the simple name of the enclosing group as its path
Question_local_path(name, type, label, sequence, required, list_name, path) ==
    [name |-> name, type |-> type, label |-> label, sequence |-> sequence,
     required |-> required, list_name |-> list_name,
     path |-> IF path = <<>> THEN <<>> ELSE <<Last(path)>>]

\* models.Question
Question(name, type, label, sequence, required, list_name, path) ==
    [name |-> name, type |-> type, label |-> label, sequence |-> sequence,
     required |-> required, list_name |-> list_name, path |-> path]

\* Question.original_name: name.split('/')[-1]
original_name(q) == Last(q.name)

\* the level StructureParser gives a repeat group: full_name.count('/')
group_level(full_name) == Len(full_name) - 1

\* models.RepeatGroup
RepeatGroup(name, label, sequence, path) ==
    [name |-> name, label |-> label, sequence |-> sequence, path |-> path,
     level |-> group_level(name)]

\* RepeatGroup.simple_name: name.split('/')[-1]
simple_name(g) == Last(g.name)

\* the question loop of _parse_level; st is [questions, groups, seq], the two
\* dicts being filled and self._sequence
RECURSIVE parse_questions(_, _, _)
parse_questions(qs, st, prefix) ==
    IF qs = <<>> THEN st
    ELSE LET q_name == Head(qs).name
             q_data == Head(qs).data
             full_name == Append(prefix, q_name)
             question == Question(full_name,
                                  Field(q_data, "type", ""),
                                  Field(q_data, "label", q_name),
                                  Field(q_data, "sequence", st.seq),
                                  Field(q_data, "required", FALSE),
                                  IF "list_name" \in DOMAIN q_data
                                  THEN Scalar(q_data.list_name) ELSE None,
                                  prefix)
         IN parse_questions(Tail(qs),
                            [st EXCEPT !.questions = DictSet(@, full_name, question),
                                       !.seq = @ + 1],
                            prefix)

\* StructureParser._parse_level: the questions of the level, then its groups,
\* each group followed by its nested content
RECURSIVE parse_level(_, _, _, _)
RECURSIVE parse_groups(_, _, _)
parse_groups(gs, st, prefix) ==
    IF gs = <<>> THEN st
    ELSE LET g_name == Head(gs).name
             g_data == Head(gs).data
             full_name == Append(prefix, g_name)
             st1 == IF Field(g_data, "repeat", FALSE)
                    THEN [st EXCEPT !.groups = DictSet(@, full_name,
                                                       RepeatGroup(full_name,
                                                                   Field(g_data, "label", g_name),
                                                                   Field(g_data, "sequence", st.seq),
                                                                   prefix)),
                                    !.seq = @ + 1]
                    ELSE st
             st2 == IF "questions" \in DOMAIN g_data \/ "groups" \in DOMAIN g_data
                    THEN parse_level(Field(g_data, "questions", <<>>),
                                     Field(g_data, "groups", <<>>),
                                     st1, full_name)
                    ELSE st1
         IN parse_groups(Tail(gs), st2, prefix)

parse_level(questions, groups, st, prefix) ==
    parse_groups(groups, parse_questions(questions, st, prefix), prefix)

\* StructureParser.parse on a parser whose running counter is sequence0:
\* the SurveyStructure and the counter left behind
parse(xlsform, sequence0) ==
    LET st == parse_level(Field(xlsform, "questions", <<>>),
                          Field(xlsform, "groups", <<>>),
                          [questions |-> <<>>, groups |-> <<>>, seq |-> sequence0],
                          <<>>)
    IN [questions |-> st.questions, repeat_groups |-> st.groups, seq |-> st.seq]

\* SurveyStructure.get_questions_by_path
get_questions_by_path(struct, path) ==
    SelectSeq(struct.questions, LAMBDA e : e.v.path = path)

(***************************************************************************)
(* DataProcessor (data_processor.py)                                       *)
(***************************************************************************)
METADATA_COLUMNS ==
    <<"_id", "__version__", "_xform_id_string", "_uuid", "_attachments",
      "_status", "_geolocation", "_submission_time", "_tags",
      "_notes", "_validation_status", "_submitted_by">>

\* the cell pandas puts where a row has no value for a column of the frame
NaN == [kind |-> "nan"]

\* pd.DataFrame(rows): the columns are those of all the rows together
DataFrame(rows) ==
    LET cols == UNION {DOMAIN rows[i] : i \in DOMAIN rows}
    IN [columns |-> cols,
        rows |-> [i \in DOMAIN rows |->
                    [c \in cols |-> IF c \in DOMAIN rows[i] THEN rows[i][c] ELSE NaN]]]

\* DataFrame.empty
IsEmpty(df) == df.rows = <<>> \/ df.columns = {}

\* "for item in value", the body of the loop using item as a dict: the items
\* of a list; nothing for the empty string; an exception for any other
\* scalar (its characters are no dicts) and for None (not iterable)
IterDicts(value) ==
    IF IsList(value) THEN [err |-> FALSE, items |-> value.items]
    ELSE IF value = Scalar("") THEN [err |-> FALSE, items |-> <<>>]
    ELSE [err |-> TRUE, items |-> <<>>]

\* can "for item in value" start: a list or a string can be iterated, None
\* cannot
Iterable(value) == value.kind # "none"

\* data.get(key): None when the key is absent
get_items_no_default(data, key) == Get(data, key, None)

\* data.get(key, []): the array of a repeat group, [] when the key is absent
get_items(data, key) == Get(data, key, List(<<>>))

\* DataProcessor._initialize_row
initialize_row(questions) ==
    [c \in Range(METADATA_COLUMNS) \cup {original_name(questions[i].v) : i \in DOMAIN questions}
       |-> None]

\* fill_one without "if not isinstance(value, list)"
fill_one_lists(row, key, value) ==
    IF Last(key) \in DOMAIN row THEN [row EXCEPT ![Last(key)] = value] ELSE row

\* fill_one without "if original_key in row"
fill_one_unguarded(row, key, value) ==
    IF ~IsList(value) THEN (Last(key) :> value) @@ row ELSE row

\* one iteration of the loop of _fill_row_data
fill_one(row, key, value) ==
    IF ~IsList(value)
    THEN LET original_key == Last(key)
         IN IF original_key \in DOMAIN row
            THEN [row EXCEPT ![original_key] = value]
            ELSE row
    ELSE row

\* DataProcessor._fill_row_data: the row after the loop over data.items()
RECURSIVE fill_row_data(_, _)
fill_row_data(row, data) ==
    IF data = <<>> THEN row
    ELSE fill_row_data(fill_one(row, Head(data).k, Head(data).v), Tail(data))

\* DataProcessor._initialize_row_for_group
initialize_row_for_group(row, questions) ==
    [c \in {original_name(questions[i].v) : i \in DOMAIN questions} |-> None] @@ row

\* the rows of "for item in items: row = {...linkage}; initialize; fill; append"
group_rows(items, linkage, questions) ==
    [i \in DOMAIN items |->
        fill_row_data(initialize_row_for_group(linkage, questions), items[i])]

\* instance_id with the 0-based index itself as the suffix
instance_id_zero_based(parent_id, i) == parent_id \o "_" \o ToString(i)

\* f"{parent_id}_{i + 1}" for the 0-based index i of enumerate
instance_id(parent_id, i) == parent_id \o "_" \o ToString(i + 1)

\* f"_{name}_id"
id_column(name) == "_" \o name \o "_id"

\* Flatten with each list put in front of the rows collected so far
RECURSIVE Flatten_prepending(_)
Flatten_prepending(res) ==
    IF res = <<>> THEN [err |-> FALSE, rows |-> <<>>]
    ELSE LET rest == Flatten_prepending(Tail(res))
         IN IF Head(res).err \/ rest.err
            THEN [err |-> TRUE, rows |-> <<>>]
            ELSE [err |-> FALSE, rows |-> rest.rows \o Head(res).rows]

\* the concatenation of the row lists res[1], res[2], ...; an exception in
\* one of them ends the whole loop
RECURSIVE Flatten(_)
Flatten(res) ==
    IF res = <<>> THEN [err |-> FALSE, rows |-> <<>>]
    ELSE LET rest == Flatten(Tail(res))
         IN IF Head(res).err \/ rest.err
            THEN [err |-> TRUE, rows |-> <<>>]
            ELSE [err |-> FALSE, rows |-> Head(res).rows \o rest.rows]

\* second_level_key as the simple name of the nested group
second_level_key_simple(path_parts) == <<path_parts[2]>>

\* f"{path_parts[0]}/{path_parts[1]}": the key of the nested array inside an
\* element of the first level
second_level_key(path_parts) == <<path_parts[1], path_parts[2]>>

\* the row a nested element starts from: {'_parent_id': ..., f'_{first}_id': ...}
nested_linkage(submission_id, first_level_name, first_level_id) ==
    ("_parent_id" :> Scalar(submission_id))
        @@ (id_column(first_level_name) :> Scalar(first_level_id))

\* DataProcessor._extract_nested_repeat_data
extract_nested_repeat_data(submission, path_parts, questions, submission_id) ==
    IF Len(path_parts) >= 2
    THEN LET first_level == IterDicts(get_items(submission, <<path_parts[1]>>))
             per_item(j) ==
                 LET i == j - 1
                     first_item == first_level.items[j]
                     first_level_id == instance_id(submission_id, i)
                     second_items == IterDicts(get_items(first_item, second_level_key(path_parts)))
                 IN [err |-> second_items.err,
                     rows |-> group_rows(second_items.items,
                                         nested_linkage(submission_id, path_parts[1], first_level_id),
                                         questions)]
         IN IF Len(path_parts) = 2
            THEN IF first_level.err
                 THEN [err |-> TRUE, rows |-> <<>>]
                 ELSE Flatten([j \in DOMAIN first_level.items |-> per_item(j)])
            ELSE [err |-> ~Iterable(get_items(submission, <<path_parts[1]>>)),
                  rows |-> <<>>]
    ELSE [err |-> FALSE, rows |-> <<>>]

\* DataProcessor._extract_repeat_data
extract_repeat_data(submission, group, questions, submission_id) ==
    LET path_parts == group.name
    IN IF group.level = 0
       THEN LET items == IterDicts(get_items(submission, <<simple_name(group)>>))
            IN [err |-> items.err,
                rows |-> group_rows(items.items, "_parent_id" :> Scalar(submission_id), questions)]
       ELSE extract_nested_repeat_data(submission, path_parts, questions, submission_id)

\* submission.get('_id', submission.get('meta/instanceID', ''))
get_submission_id(submission) ==
    Get(submission, <<"_id">>, Get(submission, <<"meta", "instanceID">>, Scalar(""))).v

\* the questions DataProcessor._create_repeat_dataframe gives a group
group_questions(struct, group) ==
    SelectSeq(struct.questions,
              LAMBDA e : e.v.path = group.name \/ StartsWithSlash(e.v.path, group.name))

\* DataProcessor._create_repeat_dataframe
create_repeat_dataframe(struct, subs, group) ==
    LET questions == group_questions(struct, group)
        all == Flatten([k \in DOMAIN subs |->
                          extract_repeat_data(subs[k], group, questions,
                                              get_submission_id(subs[k]))])
    IN [err |-> all.err, df |-> DataFrame(all.rows)]

\* the main rows when one row dict is created before the loop and filled for
\* every submission in turn, never initialised again
RECURSIVE main_rows_shared(_, _)
main_rows_shared(row, subs) ==
    IF subs = <<>> THEN <<>>
    ELSE LET filled == fill_row_data(row, Head(subs))
         IN <<filled>> \o main_rows_shared(filled, Tail(subs))

\* create_main_dataframe with the row shared by all submissions
create_main_dataframe_shared_row(struct, subs) ==
    DataFrame(main_rows_shared(initialize_row(get_questions_by_path(struct, <<>>)), subs))

\* DataProcessor._create_main_dataframe
create_main_dataframe(struct, subs) ==
    LET main_questions == get_questions_by_path(struct, <<>>)
    IN DataFrame([k \in DOMAIN subs |-> fill_row_data(initialize_row(main_questions), subs[k])])

\* sorted(items, key=level): a stable sort, equal levels keep their order
RECURSIVE SortedByLevel(_, _)
SortedByLevel(items, level) ==
    IF \A i \in DOMAIN items : items[i].v.level < level THEN <<>>
    ELSE SelectSeq(items, LAMBDA e : e.v.level = level) \o SortedByLevel(items, level + 1)

\* DataProcessor._get_sorted_repeat_groups
get_sorted_repeat_groups(struct) == SortedByLevel(struct.repeat_groups, 0)

\* the loop over the sorted groups in process_submissions; a frame is kept
\* with the name of the group it was made for ("of", which the code does not
\* store: the returned list holds the bare frames; the main frame is of <<>>)
RECURSIVE group_frames(_, _, _)
group_frames(struct, subs, groups) ==
    IF groups = <<>> THEN [err |-> FALSE, dataframes |-> <<>>]
    ELSE LET group_df == create_repeat_dataframe(struct, subs, Head(groups).v)
             rest == group_frames(struct, subs, Tail(groups))
         IN IF group_df.err \/ rest.err
            THEN [err |-> TRUE, dataframes |-> <<>>]
            ELSE [err |-> FALSE,
                  dataframes |-> (IF ~IsEmpty(group_df.df)
                                  THEN << [of |-> Head(groups).k, df |-> group_df.df] >>
                                  ELSE <<>>) \o rest.dataframes]

\* DataProcessor.process_submissions: err when an exception leaves the call
process_submissions(struct, subs) ==
    IF subs = <<>> THEN [err |-> FALSE, dataframes |-> <<>>]
    ELSE LET main_df == create_main_dataframe(struct, subs)
             rest == group_frames(struct, subs, get_sorted_repeat_groups(struct))
         IN IF rest.err THEN rest
            ELSE [err |-> FALSE,
                  dataframes |-> (IF ~IsEmpty(main_df)
                                  THEN << [of |-> <<>>, df |-> main_df] >>
                                  ELSE <<>>) \o rest.dataframes]

(***************************************************************************)
(* builder.py: XLSFormDataStructureBuilder and                             *)
(* create_dataframes_from_submissions (the path of Kobo.data_to_dataframes)*)
(***************************************************************************)
\* data.get(field) with no default: None when the field is missing
FieldOrNone(data, field) == IF field \in DOMAIN data THEN Scalar(data[field]) ELSE None

\* XLSFormDataStructureBuilder._process_questions; st is [flat_questions,
\* repeat_groups]
RECURSIVE process_questions(_, _, _)
process_questions(qs, prefix, st) ==
    IF qs = <<>> THEN st
    ELSE LET q_name == Head(qs).name
             q_data == Head(qs).data
             full_name == Append(prefix, q_name)
             info == [type |-> FieldOrNone(q_data, "type"),
                      label |-> FieldOrNone(q_data, "label"),
                      required |-> Field(q_data, "required", FALSE),
                      sequence |-> FieldOrNone(q_data, "sequence"),
                      list_name |-> FieldOrNone(q_data, "list_name"),
                      original_name |-> q_name,
                      path |-> prefix]
         IN process_questions(Tail(qs), prefix,
                              [st EXCEPT !.flat_questions = DictSet(@, full_name, info)])

\* XLSFormDataStructureBuilder._process_groups
RECURSIVE process_groups(_, _, _)
process_groups(gs, prefix, st) ==
    IF gs = <<>> THEN st
    ELSE LET g_name == Head(gs).name
             g_data == Head(gs).data
             full_name == Append(prefix, g_name)
             st1 == IF Field(g_data, "repeat", FALSE)
                    THEN [st EXCEPT !.repeat_groups =
                             DictSet(@, full_name, [label |-> FieldOrNone(g_data, "label"),
                                                    sequence |-> FieldOrNone(g_data, "sequence"),
                                                    path |-> prefix])]
                    ELSE st
             st2 == IF "questions" \in DOMAIN g_data
                    THEN process_questions(g_data.questions, full_name, st1)
                    ELSE st1
             st3 == IF "groups" \in DOMAIN g_data
                    THEN process_groups(g_data.groups, full_name, st2)
                    ELSE st2
         IN process_groups(Tail(gs), prefix, st3)

\* XLSFormDataStructureBuilder.__init__ / _build_structure
build_structure(xlsform) ==
    process_groups(Field(xlsform, "groups", <<>>), <<>>,
                   process_questions(Field(xlsform, "questions", <<>>), <<>>,
                                     [flat_questions |-> <<>>, repeat_groups |-> <<>>]))

\* _get_repeat_groups_hierarchy: a dict group name -> info, in the order of
\* builder.repeat_groups
get_repeat_groups_hierarchy(builder) ==
    [i \in DOMAIN builder.repeat_groups |->
        LET group_name == builder.repeat_groups[i].k
            group_info == builder.repeat_groups[i].v
        IN [k |-> group_name,
            v |-> [simple_name |-> Last(group_name),
                   level |-> Len(group_name) - 1,
                   parent_path |-> SubSeq(group_name, 1, Len(group_name) - 1),
                   label |-> group_info.label,
                   sequence |-> group_info.sequence]]]

\* the table (key of columns_by_level) _get_columns_by_level_dynamic puts a
\* question in: the first group of the hierarchy, in dict order, that matches
\* its path ("for ... break"), "main" when none does
column_table(question_info, repeat_groups_info) ==
    LET path == question_info.path
        matches == {i \in DOMAIN repeat_groups_info :
                       \/ path = repeat_groups_info[i].k
                       \/ StartsWithSlash(path, repeat_groups_info[i].k)}
    IN IF path = <<>> \/ matches = {}
       THEN "main"
       ELSE repeat_groups_info[CHOOSE i \in matches : \A j \in matches : i <= j].v.simple_name

\* _get_columns_by_level_dynamic: key -> list of original names
get_columns_by_level_dynamic(builder, repeat_groups_info) ==
    LET tables == {"main"} \cup {repeat_groups_info[i].v.simple_name : i \in DOMAIN repeat_groups_info}
        names(t) == SelectSeq(builder.flat_questions,
                              LAMBDA e : column_table(e.v, repeat_groups_info) = t)
    IN [t \in tables |-> [i \in DOMAIN names(t) |-> names(t)[i].v.original_name]]

BUILDER_METADATA_COLUMNS ==
    <<"_id", "formhub/uuid", "__version__", "meta/instanceID", "_xform_id_string",
      "_uuid", "meta/rootUuid", "_attachments", "_status", "_geolocation",
      "_submission_time", "_tags", "_notes", "_validation_status", "_submitted_by">>

\* "for key, value in item.items(): if not isinstance(value, list):
\*  row[key.split('/')[-1]] = value": every scalar field becomes a cell,
\* declared or not
RECURSIVE fill_scalars(_, _)
fill_scalars(row, data) ==
    IF data = <<>> THEN row
    ELSE fill_scalars(IF ~IsList(Head(data).v)
                      THEN (Last(Head(data).k) :> Head(data).v) @@ row
                      ELSE row,
                      Tail(data))

\* the fill loop of the third level (builder.py 477-479): no isinstance test
RECURSIVE fill_all(_, _)
fill_all(row, data) ==
    IF data = <<>> THEN row
    ELSE fill_all((Last(Head(data).k) :> Head(data).v) @@ row, Tail(data))

\* a row of a repeat group: the linkage columns, the columns of the group
\* set to None, then the data
init_columns(linkage, group_name, all_columns) ==
    IF group_name \in DOMAIN all_columns
    THEN [c \in Range(all_columns[group_name]) |-> None] @@ linkage
    ELSE linkage

\* _process_first_level_repeat: the rows it appends to group_data
process_first_level_repeat(submission, submission_id, group_name, group_path, all_columns) ==
    LET group_list == IterDicts(get_items(submission, <<group_name>>))
    IN [err |-> group_list.err,
        rows |-> [i \in DOMAIN group_list.items |->
                    fill_scalars(init_columns("_parent_id" :> Scalar(submission_id),
                                              group_name, all_columns),
                                 group_list.items[i])]]

\* third_level_linkage with the id of the second level left out
third_level_linkage_short(submission_id, first_level_name, first_level_id, second_level_name, second_level_id) ==
    ("_parent_id" :> Scalar(submission_id))
        @@ (id_column(first_level_name) :> Scalar(first_level_id))

\* the row an element of the third level starts from (builder.py 465-469)
third_level_linkage(submission_id, first_level_name, first_level_id, second_level_name, second_level_id) ==
    ("_parent_id" :> Scalar(submission_id))
        @@ (id_column(first_level_name) :> Scalar(first_level_id))
        @@ (id_column(second_level_name) :> Scalar(second_level_id))

\* _process_nested_repeat: the rows it appends to group_data
process_nested_repeat(submission, submission_id, group_name, group_path, all_columns) ==
    LET path_parts == group_path
        first_level_name == path_parts[1]
        first_level_value == get_items(submission, <<first_level_name>>)
        first_level_items == IterDicts(first_level_value)
        second_level(first_idx) ==
            LET first_item == first_level_items.items[first_idx + 1]
                first_level_id == instance_id(submission_id, first_idx)
                second_level_name == path_parts[2]
                second_level_items ==
                    IterDicts(get_items(first_item, <<first_level_name, second_level_name>>))
                third_level(second_idx) ==
                    LET second_item == second_level_items.items[second_idx + 1]
                        second_level_id == instance_id(first_level_id, second_idx)
                        third_level_key == <<first_level_name, second_level_name, path_parts[3]>>
                        third_level_items == IterDicts(get_items(second_item, third_level_key))
                    IN [err |-> third_level_items.err,
                        rows |-> [k \in DOMAIN third_level_items.items |->
                                    fill_all(init_columns(third_level_linkage(submission_id,
                                                                              first_level_name, first_level_id,
                                                                              second_level_name, second_level_id),
                                                          group_name, all_columns),
                                             third_level_items.items[k])]]
            IN IF Len(path_parts) = 2
               THEN [err |-> second_level_items.err,
                     rows |-> [k \in DOMAIN second_level_items.items |->
                                 fill_scalars(init_columns(nested_linkage(submission_id, first_level_name,
                                                                          first_level_id),
                                                           group_name, all_columns),
                                              second_level_items.items[k])]]
               ELSE IF second_level_items.err
                    THEN [err |-> TRUE, rows |-> <<>>]
                    ELSE Flatten([j \in DOMAIN second_level_items.items |-> third_level(j - 1)])
    IN IF Len(path_parts) = 1
       THEN [err |-> FALSE, rows |-> <<>>]
       ELSE IF Len(path_parts) \in {2, 3}
            THEN IF first_level_items.err
                 THEN [err |-> TRUE, rows |-> <<>>]
                 ELSE Flatten([j \in DOMAIN first_level_items.items |-> second_level(j - 1)])
            ELSE [err |-> ~Iterable(first_level_value), rows |-> <<>>]

\* the loop over the submissions in _create_repeat_group_dataframes, for one
\* group of the sorted list
group_data(subs, group_path, group_info, all_columns) ==
    Flatten([k \in DOMAIN subs |->
               LET submission_id == get_submission_id(subs[k])
               IN IF group_info.level = 0
                  THEN process_first_level_repeat(subs[k], submission_id,
                                                  group_info.simple_name, group_path, all_columns)
                  ELSE process_nested_repeat(subs[k], submission_id,
                                             group_info.simple_name, group_path, all_columns)])

\* _create_repeat_group_dataframes: the frames it appends, each with the
\* group it was made for
RECURSIVE create_repeat_group_dataframes(_, _, _)
create_repeat_group_dataframes(subs, sorted_groups, all_columns) ==
    IF sorted_groups = <<>> THEN [err |-> FALSE, dataframes |-> <<>>]
    ELSE LET data == group_data(subs, Head(sorted_groups).k, Head(sorted_groups).v, all_columns)
             rest == create_repeat_group_dataframes(subs, Tail(sorted_groups), all_columns)
         IN IF data.err \/ rest.err
            THEN [err |-> TRUE, dataframes |-> <<>>]
            ELSE [err |-> FALSE,
                  dataframes |-> (IF data.rows # <<>>
                                  THEN << [of |-> Head(sorted_groups).k, df |-> DataFrame(data.rows)] >>
                                  ELSE <<>>) \o rest.dataframes]

\* the main row create_dataframes_from_submissions makes of a submission
main_row(submission, all_columns) ==
    fill_scalars([c \in Range(BUILDER_METADATA_COLUMNS) \cup Range(all_columns["main"]) |-> None],
                 submission)

\* create_dataframes_from_submissions(submissions, builder)
create_dataframes_from_submissions(subs, builder) ==
    IF subs = <<>> THEN [err |-> FALSE, dataframes |-> <<>>]
    ELSE LET repeat_groups_info == get_repeat_groups_hierarchy(builder)
             all_columns == get_columns_by_level_dynamic(builder, repeat_groups_info)
             main_df == DataFrame([k \in DOMAIN subs |-> main_row(subs[k], all_columns)])
             rest == create_repeat_group_dataframes(subs, SortedByLevel(repeat_groups_info, 0),
                                                    all_columns)
         IN IF rest.err THEN rest
            ELSE [err |-> FALSE,
                  dataframes |-> << [of |-> <<>>, df |-> main_df] >> \o rest.dataframes]

(***************************************************************************)
(* The state machine: a form is parsed (possibly again, on the same        *)
(* parser), submissions arrive, and the batch received so far is flattened *)
(* by DataProcessor.                                                       *)
(***************************************************************************)
NotRun == [run |-> FALSE]

(***************************************************************************)
(* Kobo.get_data (wrapper.py) and Client._make_request_raw (client.py).    *)
(* An argument is None or Scalar(value); params is a dict.                 *)
(***************************************************************************)
\* most retries a Client is configured with
MaxRetries == 3

\* the default of Client.__init__'s max_retries
DEFAULT_MAX_RETRIES == 3

\* the values get_data is called with (tests/url.py 4a-4e, and the empty
\* string)
QueryArgs == {None, Scalar(""), Scalar("{\"_id\": {\"$gt\": 1}}")}

StartArgs == {None, Scalar(0), Scalar(5)}

LimitArgs == {None, Scalar(0), Scalar(2)}

SubmittedAfterArgs == {None, Scalar(""), Scalar("2024-01-01T00:00:00")}

\* the truth value of "if x:" for an optional string
Truthy(x) == x # None /\ x.v # ""

\* f'{{"_submission_time": {{"$gt": "{submitted_after}"}}}}'
submission_time_filter(submitted_after) ==
    "{\"_submission_time\": {\"$gt\": \"" \o submitted_after \o "\"}}"

\* get_data_params with "if start:" for "if start is not None:"
get_data_params_truthy_start(query, start, limit, submitted_after) ==
    LET p1 == IF Truthy(query) THEN DictSet(<<>>, "query", query)
              ELSE IF Truthy(submitted_after)
                   THEN DictSet(<<>>, "query", Scalar(submission_time_filter(submitted_after.v)))
                   ELSE <<>>
        p2 == IF start # None /\ start.v # 0 THEN DictSet(p1, "start", start) ELSE p1
    IN IF limit # None THEN DictSet(p2, "limit", limit) ELSE p2

\* the params Kobo.get_data builds
get_data_params(query, start, limit, submitted_after) ==
    LET p1 == IF Truthy(query) THEN DictSet(<<>>, "query", query)
              ELSE IF Truthy(submitted_after)
                   THEN DictSet(<<>>, "query", Scalar(submission_time_filter(submitted_after.v)))
                   ELSE <<>>
        p2 == IF start # None THEN DictSet(p1, "start", start) ELSE p1
    IN IF limit # None THEN DictSet(p2, "limit", limit) ELSE p2

\* what a request can come to: a transport exception
\* (requests.exceptions.RequestException) or a response with a status and a
\* body that is JSON or not
TransportError == [kind |-> "RequestException"]

Response(status, json) == [kind |-> "response", status |-> status, json |-> json]

Outcomes ==
    {TransportError} \cup {Response(st, TRUE) : st \in {200, 401, 404, 500}}
                     \cup {Response(200, FALSE)}

\* requests.Response.ok
ok(response) == response.status < 400

\* ERROR_MAPPING.get(status_code, KoboAPIError) mapping every status to
\* KoboAPIError
error_class_unmapped(status_code) == "KoboAPIError"

\* ERROR_MAPPING.get(status_code, KoboAPIError)
error_class(status_code) ==
    IF status_code = 401 THEN "AuthenticationError"
    ELSE IF status_code = 404 THEN "ResourceNotFoundError"
    ELSE "KoboAPIError"

\* 2 ** attempt
RECURSIVE Pow2(_)
Pow2(k) == IF k = 0 THEN 1 ELSE 2 * Pow2(k - 1)

\* "if attempt == self.max_retries" : the test one too far
is_last_attempt_off_by_one(attempt, max_retries) == attempt = max_retries

\* "if attempt == self.max_retries - 1"
is_last_attempt(attempt, max_retries) == attempt = max_retries - 1

\* a Client that is making no request
IdleClient(max_retries) ==
    [max_retries |-> max_retries, pc |-> "idle", attempt |-> 0, events |-> <<>>,
     raw |-> None, result |-> None]


Init ==
    /\ form \in Forms
    /\ self_sequence = 0
    /\ parses = 0
    /\ structure = NotRun
    /\ submissions = <<>>
    /\ dp = NotRun
    /\ dp_prev = NotRun
    /\ bd = NotRun
    /\ gd = NotRun
    /\ client = IdleClient(DEFAULT_MAX_RETRIES)
    /\ xb = NotRun
    /\ ex = NotRun
    /\ gq = NotRun

\* StructureParser(form).parse(), on the one parser of the form
Parse ==
    /\ parses < MaxParses
    /\ LET r == parse(form, self_sequence)
       IN /\ structure' = [run |-> TRUE, questions |-> r.questions,
                           repeat_groups |-> r.repeat_groups]
          /\ self_sequence' = r.seq
    /\ parses' = parses + 1
    /\ UNCHANGED <<form, submissions, dp, dp_prev, bd>>
    /\ UNCHANGED <<api, objects>>

\* one more submission is fetched; the API gives each its own id
Receive ==
    /\ Len(submissions) < MaxSubs
    /\ \E s \in SubsOf(form, "S" \o ToString(Len(submissions) + 1)) :
          submissions' = Append(submissions, s)
    /\ UNCHANGED <<form, self_sequence, parses, structure, dp, dp_prev, bd>>
    /\ UNCHANGED <<api, objects>>

\* ProcessSubmissions on a processor that keeps its list of frames from call
\* to call
ProcessSubmissions_accumulating ==
    /\ structure.run
    /\ LET r == process_submissions(structure, submissions)
       IN dp' = [run |-> TRUE, structure |-> structure, subs |-> submissions,
                 err |-> r.err,
                 dataframes |-> (IF dp.run THEN dp.dataframes ELSE <<>>) \o r.dataframes]
    /\ dp_prev' = dp
    /\ UNCHANGED <<form, self_sequence, parses, structure, submissions, bd>>
    /\ UNCHANGED <<api, objects>>

\* ProcessSubmissions taking the arrays out of the submissions as it reads
\* them (pop where the code has get)
ProcessSubmissions_popping ==
    /\ structure.run
    /\ LET r == process_submissions(structure, submissions)
       IN dp' = [run |-> TRUE, structure |-> structure, subs |-> submissions,
                 err |-> r.err, dataframes |-> r.dataframes]
    /\ dp_prev' = dp
    /\ submissions' = [k \in DOMAIN submissions |->
                          SelectSeq(submissions[k], LAMBDA e : ~IsList(e.v))]
    /\ UNCHANGED <<form, self_sequence, parses, structure, bd>>
    /\ UNCHANGED <<api, objects>>

\* DataProcessor(structure).process_submissions(submissions): the call reads
\* the structure and the submissions and writes neither
ProcessSubmissions ==
    /\ structure.run
    /\ LET r == process_submissions(structure, submissions)
       IN dp' = [run |-> TRUE, structure |-> structure, subs |-> submissions,
                 err |-> r.err, dataframes |-> r.dataframes]
    /\ dp_prev' = dp
    /\ UNCHANGED <<form, self_sequence, parses, structure, submissions, bd>>
    /\ UNCHANGED <<api, objects>>

\* Kobo.data_to_dataframes: create_dataframes_from_submissions(submissions,
\* XLSFormDataStructureBuilder(form))
DataToDataframes ==
    /\ LET r == create_dataframes_from_submissions(submissions, build_structure(form))
       IN bd' = [run |-> TRUE, subs |-> submissions,
                 err |-> r.err, dataframes |-> r.dataframes]
    /\ UNCHANGED <<form, self_sequence, parses, structure, submissions, dp, dp_prev>>
    /\ UNCHANGED <<api, objects>>

Next == Parse \/ Receive \/ ProcessSubmissions \/ DataToDataframes

Spec == Init /\ [][Next]_vars

(***************************************************************************)
(* The API wrapper as a state machine: get_data builds its params and      *)
(* hands the request to the Client, whose retry loop then runs; the server *)
(* and the network decide what each request comes to.                      *)
(***************************************************************************)
\* no form is being flattened
PipelineIdle ==
    /\ form = FormMembers
    /\ self_sequence = 0
    /\ parses = 0
    /\ structure = NotRun
    /\ submissions = <<>>
    /\ dp = NotRun
    /\ dp_prev = NotRun
    /\ bd = NotRun

InitApi ==
    /\ PipelineIdle
    /\ gd = NotRun
    /\ \E n \in 0..MaxRetries : client = IdleClient(n)
    /\ xb = NotRun
    /\ ex = NotRun
    /\ gq = NotRun

\* Kobo.get_data(asset_uid, query, start, limit, submitted_after) up to the
\* first request of client.get: the params are built and _make_request_raw
\* enters its loop (with max_retries = 0 the loop has no pass and the call
\* ends in KoboAPIError)
GetData ==
    /\ client.pc \in {"idle", "returned", "raised"}
    /\ \E query \in QueryArgs, start \in StartArgs, limit \in LimitArgs,
          submitted_after \in SubmittedAfterArgs :
          gd' = [run |-> TRUE, query |-> query, start |-> start, limit |-> limit,
                 submitted_after |-> submitted_after,
                 params |-> get_data_params(query, start, limit, submitted_after)]
    /\ client' = IF client.max_retries > 0
                 THEN [IdleClient(client.max_retries) EXCEPT !.pc = "request"]
                 ELSE [IdleClient(client.max_retries) EXCEPT
                          !.pc = "raised", !.raw = Scalar("KoboAPIError"),
                          !.result = Scalar("KoboAPIError")]
    /\ UNCHANGED <<pipeline, objects>>

\* one pass of the loop of _make_request_raw: session.request comes to an
\* outcome; an ok response is returned (and _make_request reads its JSON), a
\* response that is not ok raises the error of its status, a transport
\* exception ends the call after the last attempt and leads to the sleep
\* otherwise
Request ==
    /\ client.pc = "request"
    /\ \E outcome \in Outcomes :
          LET sent == Append(client.events, [e |-> "request", outcome |-> outcome])
          IN client' =
               IF outcome.kind = "response"
               THEN IF ok(outcome)
                    THEN [client EXCEPT !.events = sent, !.pc = "returned",
                                        !.raw = outcome,
                                        !.result = IF outcome.json THEN outcome
                                                   ELSE Scalar("KoboAPIError")]
                    ELSE [client EXCEPT !.events = sent, !.pc = "raised",
                                        !.raw = Scalar(error_class(outcome.status)),
                                        !.result = Scalar(error_class(outcome.status))]
               ELSE IF is_last_attempt(client.attempt, client.max_retries)
                    THEN [client EXCEPT !.events = sent, !.pc = "raised",
                                        !.raw = Scalar("KoboAPIError"),
                                        !.result = Scalar("KoboAPIError")]
                    ELSE IF client.attempt + 1 < client.max_retries
                         THEN [client EXCEPT !.events = sent, !.pc = "sleep"]
                         ELSE [client EXCEPT !.events = sent, !.pc = "sleep_last"]
    /\ UNCHANGED <<pipeline, gd, objects>>

\* time.sleep(2 ** attempt), then the next pass of the loop; after a sleep
\* that follows the last pass the loop is over and the call ends in
\* KoboAPIError("Unexpected error in request handling")
Sleep ==
    /\ client.pc \in {"sleep", "sleep_last"}
    /\ LET slept == Append(client.events, [e |-> "sleep", secs |-> Pow2(client.attempt)])
       IN client' = IF client.pc = "sleep"
                    THEN [client EXCEPT !.events = slept, !.pc = "request",
                                        !.attempt = @ + 1]
                    ELSE [client EXCEPT !.events = slept, !.pc = "raised",
                                        !.raw = Scalar("KoboAPIError"),
                                        !.result = Scalar("KoboAPIError")]
    /\ UNCHANGED <<pipeline, gd, objects>>

NextApi == GetData \/ Request \/ Sleep

SpecApi == InitApi /\ [][NextApi]_vars

\* a request ends (it has a timeout) and so does a sleep
SpecApiFair == SpecApi /\ WF_vars(Request) /\ WF_vars(Sleep)

(***************************************************************************)
(* Properties.  What the claims expect is computed from the submissions    *)
(* and the schema, not by the operators of the flattening.                 *)
(***************************************************************************)
\* the rows and the columns of the frame a result holds for table G (<<>> is
\* the main table); no rows when the result holds no such frame
FramesOf(res, G) == {i \in DOMAIN res.dataframes : res.dataframes[i].of = G}

Rows(res, G) ==
    IF FramesOf(res, G) = {} THEN <<>>
    ELSE res.dataframes[CHOOSE i \in FramesOf(res, G) : TRUE].df.rows

RepeatNames(struct) == Keys(struct.repeat_groups)

\* the repeat groups on the path of G, outermost first, G last
Chain(names, G) ==
    SelectSeq([i \in 1..Len(G) |-> SubSeq(G, 1, i)], LAMBDA p : p \in names)

\* the array a record holds at a key: its elements, none when the key is
\* absent
ArrayAt(data, key) ==
    IF HasKey(data, key) /\ IsList(Lookup(data, key)) THEN Lookup(data, key).items ELSE <<>>

RECURSIVE SumSeq(_)
SumSeq(ns) == IF ns = <<>> THEN 0 ELSE Head(ns) + SumSeq(Tail(ns))

\* the number of instances of the innermost group of a chain inside a record:
\* the lengths of its arrays, summed over every instance of its ancestors
RECURSIVE CountAt(_, _)
CountAt(data, chain) ==
    IF chain = <<>> THEN 1
    ELSE SumSeq([i \in DOMAIN ArrayAt(data, Head(chain)) |->
                    CountAt(ArrayAt(data, Head(chain))[i], Tail(chain))])

\* the id of a submission
IdOf(submission) ==
    IF HasKey(submission, <<"_id">>) THEN Lookup(submission, <<"_id">>).v
    ELSE Lookup(submission, <<"meta", "instanceID">>).v

\* the indexes of the scalar fields of a record whose key, or the last
\* segment of whose key, is the column
FieldsFor(data, column) ==
    {i \in DOMAIN data : ~IsList(data[i].v) /\ Last(data[i].k) = column}

\* C1 (as claimed): for every repeat group G, at any nesting level, the number
\* of rows DataProcessor.process_submissions produces for G's table is the
\* sum over the submissions of the length of the array at G's key, summed
\* over every instance of its ancestor groups, 0 when the key is absent.
C1_RowCountLaw ==
    (dp.run /\ ~dp.err) =>
        \A G \in RepeatNames(dp.structure) :
            Len(Rows(dp, G)) =
                SumSeq([k \in DOMAIN dp.subs |->
                           CountAt(dp.subs[k], Chain(RepeatNames(dp.structure), G))])

\* the columns the schema declares for the main table
MainColumns(struct) ==
    Range(METADATA_COLUMNS)
        \cup {Last(struct.questions[i].k) : i \in {j \in DOMAIN struct.questions :
                                                     struct.questions[j].v.path = <<>>}}

\* the linkage columns of the table of G: _parent_id and one id column for
\* each repeat group strictly above G
LinkageColumns(names, G) ==
    {"_parent_id"}
        \cup {"_" \o Last(Chain(names, G)[i]) \o "_id" : i \in 1..(Len(Chain(names, G)) - 1)}

\* the columns the schema declares for the table of G: its linkage columns
\* and the questions whose path is G or lies under G
GroupColumns(struct, G) ==
    LinkageColumns(RepeatNames(struct), G)
        \cup {Last(struct.questions[i].k) : i \in {j \in DOMAIN struct.questions :
                                                     IsPrefix(G, struct.questions[j].v.path)}}

\* the elements of a root-level repeat group in a batch, in row order
RECURSIVE AllItems(_, _)
AllItems(subs, key) ==
    IF subs = <<>> THEN <<>> ELSE ArrayAt(Head(subs), key) \o AllItems(Tail(subs), key)

Suffix == <<"_1", "_2", "_3">>

RECURSIVE Concat(_)
Concat(ss) == IF ss = <<>> THEN <<>> ELSE Head(ss) \o Concat(Tail(ss))

\* the repeat groups of the form
Schema == RepeatNames(parse(form, 0))

\* the repeat groups nested in exactly n - 1 repeat groups and in no plain group
PureGroups(n) == {G \in Schema : Len(G) = n /\ Len(Chain(Schema, G)) = n}

\* the value a row holds in a column, NaN when it has no such column
Cell(row, column) == IF column \in DOMAIN row THEN row[column] ELSE NaN

\* for a group G nested in one repeat group: the linkage each child element
\* is to carry, in row order
ExpectedLinks2(subs, G) ==
    Concat([k \in DOMAIN subs |->
        Concat([i \in DOMAIN ArrayAt(subs[k], <<G[1]>>) |->
            [j \in DOMAIN ArrayAt(ArrayAt(subs[k], <<G[1]>>)[i], G) |->
                <<Scalar(IdOf(subs[k])), Scalar(IdOf(subs[k]) \o Suffix[i])>>]])])

TwoLevelIds(res) ==
    (res.run /\ ~res.err) =>
        \A G \in PureGroups(2) :
            [j \in DOMAIN Rows(res, G) |->
                <<Cell(Rows(res, G)[j], "_parent_id"),
                  Cell(Rows(res, G)[j], "_" \o G[1] \o "_id")>>]
              = ExpectedLinks2(res.subs, G)

\* C3: for a repeat group nested in one other repeat group, the row of each
\* child element found in the ancestor element at 0-based index i of
\* submission S carries _parent_id = id(S) and _{ancestor}_id = id(S) "_" i+1,
\* in DataProcessor and in create_dataframes_from_submissions.
C3_SyntheticIdFormat == TwoLevelIds(dp) /\ TwoLevelIds(bd)

\* C3 witness: a child of the third household (index 2) of submission S1 was
\* flattened by both and carries _household_id "S1_3"
C3_Witness ==
    /\ dp.run /\ ~dp.err /\ bd.run /\ ~bd.err /\ bd.subs = dp.subs
    /\ \E j \in DOMAIN Rows(dp, <<"household", "person">>) :
          LET row == Rows(dp, <<"household", "person">>)[j]
          IN /\ row["_parent_id"] = Scalar("S1")
             /\ row["_household_id"] = Scalar("S1_3")
             /\ Rows(bd, <<"household", "person">>)[j]["_household_id"] = Scalar("S1_3")

\* for a group G nested in two repeat groups: the linkage each innermost
\* element is to carry, in row order
ExpectedLinks3(subs, G) ==
    Concat([k \in DOMAIN subs |->
        Concat([i \in DOMAIN ArrayAt(subs[k], <<G[1]>>) |->
            Concat([j \in DOMAIN ArrayAt(ArrayAt(subs[k], <<G[1]>>)[i], <<G[1], G[2]>>) |->
                [n \in DOMAIN ArrayAt(ArrayAt(ArrayAt(subs[k], <<G[1]>>)[i], <<G[1], G[2]>>)[j], G) |->
                    <<Scalar(IdOf(subs[k])),
                      Scalar(IdOf(subs[k]) \o Suffix[i]),
                      Scalar(IdOf(subs[k]) \o Suffix[i] \o Suffix[j])>>]])])])

\* C4: in create_dataframes_from_submissions every row of a table of a
\* repeat group carries _parent_id, the id of a submission of the batch, and
\* one _{ancestor}_id column for each repeat group strictly above its group;
\* for a group nested three levels deep (g1/g2/g3) each innermost element
\* yields one row, with _g1_id = id "_" i+1 and _g2_id = id "_" i+1 "_" j+1.
C4_AncestorIdColumns ==
    (bd.run /\ ~bd.err) =>
        /\ \A f \in DOMAIN bd.dataframes :
              LET G == bd.dataframes[f].of
                  rows == bd.dataframes[f].df.rows
              IN (G # <<>>) =>
                    \A j \in DOMAIN rows :
                        /\ \A c \in LinkageColumns(Schema, G) : Cell(rows[j], c).kind = "scalar"
                        /\ \E k \in DOMAIN bd.subs :
                              Cell(rows[j], "_parent_id") = Scalar(IdOf(bd.subs[k]))
        /\ \A G \in PureGroups(3) :
              [j \in DOMAIN Rows(bd, G) |->
                  <<Cell(Rows(bd, G)[j], "_parent_id"),
                    Cell(Rows(bd, G)[j], "_" \o G[1] \o "_id"),
                    Cell(Rows(bd, G)[j], "_" \o G[2] \o "_id")>>]
                = ExpectedLinks3(bd.subs, G)

\* C4 witness: the g3 element of the second g2 element of the second g1
\* element of S1 has its row, with _g1_id "S1_2" and _g2_id "S1_2_2"
C4_Witness ==
    /\ bd.run /\ ~bd.err
    /\ \E j \in DOMAIN Rows(bd, <<"g1", "g2", "g3">>) :
          LET row == Rows(bd, <<"g1", "g2", "g3">>)[j]
          IN /\ row["_parent_id"] = Scalar("S1")
             /\ row["_g1_id"] = Scalar("S1_2")
             /\ row["_g2_id"] = Scalar("S1_2_2")
             /\ row["q3"] = Scalar("z3")

\* C5: in DataProcessor, for a group g1/g2 of level 1, the nested array is
\* read under the key "g1/g2" inside each element of the g1 array of the
\* submission: the number of g2 rows whose _g1_id is id "_" i+1 is the length
\* of that array in the element at 0-based index i, an element without the
\* array contributing no row and still taking its index; there are no other
\* rows.
C5_TwoLevelNesting ==
    (dp.run /\ ~dp.err) =>
        \A G \in PureGroups(2) :
            /\ \A k \in DOMAIN dp.subs :
                  \A i \in DOMAIN ArrayAt(dp.subs[k], <<G[1]>>) :
                      Cardinality({j \in DOMAIN Rows(dp, G) :
                                      Cell(Rows(dp, G)[j], "_" \o G[1] \o "_id")
                                          = Scalar(IdOf(dp.subs[k]) \o Suffix[i])})
                          = Len(ArrayAt(ArrayAt(dp.subs[k], <<G[1]>>)[i], G))
            /\ Len(Rows(dp, G))
                  = SumSeq([k \in DOMAIN dp.subs |-> CountAt(dp.subs[k], <<<<G[1]>>, G>>)])

\* C5 witness: S1 has 2 households with 1 and 2 persons, S2 has 3 households
\* of which only the third has a person: 4 person rows
C5_Witness ==
    /\ dp.run /\ ~dp.err
    /\ [j \in DOMAIN Rows(dp, <<"household", "person">>) |->
          Rows(dp, <<"household", "person">>)[j]["_household_id"].v]
         = <<"S1_1", "S1_2", "S1_2", "S2_3">>

\* C6 (as claimed): the level of every RepeatGroup StructureParser.parse
\* produces is the number of repeat groups strictly above it; plain groups on
\* its path do not count.
C6_LevelIsRepeatDepth ==
    structure.run =>
        \A i \in DOMAIN structure.repeat_groups :
            structure.repeat_groups[i].v.level
                = Len(Chain(RepeatNames(structure), structure.repeat_groups[i].k)) - 1

\* the table a question belongs to: the deepest repeat group on its path, the
\* main table (<<>>) when there is none
Owner(names, path) ==
    IF Chain(names, path) = <<>> THEN <<>> ELSE Last(Chain(names, path))

\* C7 (as claimed): a question is a column of the table of a repeat group
\* exactly when that group is the deepest repeat group on the path of the
\* question; a question of g1/g2 is a column of g2's table, not of g1's.
C7_DeepestGroupOwnsQuestion ==
    (dp.run /\ ~dp.err) =>
        \A f \in DOMAIN dp.dataframes :
            (dp.dataframes[f].of # <<>>) =>
                \A i \in DOMAIN dp.structure.questions :
                    LET q == dp.structure.questions[i].v
                    IN (original_name(q) \in dp.dataframes[f].df.columns)
                          <=> (Owner(RepeatNames(dp.structure), q.path) = dp.dataframes[f].of)

\* C8 (as claimed): in DataProcessor a question under a plain group and under
\* no repeat group is a column of every main row, and the top-level field
\* "group/question" of a submission fills it.
C8_PlainGroupQuestionInRoot ==
    (dp.run /\ ~dp.err) =>
        \A i \in DOMAIN dp.structure.questions :
            LET q == dp.structure.questions[i].v
            IN (q.path # <<>> /\ Owner(RepeatNames(dp.structure), q.path) = <<>>) =>
                  \A k \in DOMAIN dp.subs :
                      /\ original_name(q) \in DOMAIN Rows(dp, <<>>)[k]
                      /\ (FieldsFor(dp.subs[k], original_name(q)) # {}) =>
                            \E n \in FieldsFor(dp.subs[k], original_name(q)) :
                                Rows(dp, <<>>)[k][original_name(q)] = dp.subs[k][n].v

\* the largest element of a non-empty set of numbers
Max(S) == CHOOSE n \in S : \A m \in S : m <= n

\* C9: the main table of DataProcessor has one row for each submission, in
\* order; each declared root column holds the value of the top-level field
\* that is no array and whose key, or the last segment of whose key, is the
\* column (the last such field when there are several), None when there is
\* none; an array never is the value of a cell.
C9_RootTable ==
    (dp.run /\ ~dp.err) =>
        /\ Len(Rows(dp, <<>>)) = Len(dp.subs)
        /\ \A k \in DOMAIN dp.subs : \A c \in MainColumns(dp.structure) :
              LET cell == Cell(Rows(dp, <<>>)[k], c)
                  fields == FieldsFor(dp.subs[k], c)
              IN /\ cell = IF fields = {} THEN None ELSE dp.subs[k][Max(fields)].v
                 /\ ~IsList(cell)

\* C9 witness: a submission with an array under the metadata key _tags, and
\* with "barrio" and "techo/barrio", has its main row
C9_Witness ==
    /\ dp.run /\ ~dp.err
    /\ \E k \in DOMAIN dp.subs :
          /\ HasKey(dp.subs[k], <<"_tags">>)
          /\ Rows(dp, <<>>)[k]["_tags"] = None
          /\ Rows(dp, <<>>)[k]["barrio"] = Scalar("norte")
          /\ Rows(dp, <<>>)[k]["_uuid"] = None

\* every field of a record that is keyed as a repeat group holds an array,
\* and so in every element of its arrays
RECURSIVE WellShaped(_)
WellShaped(data) ==
    \A i \in DOMAIN data :
        /\ (data[i].k \in Schema \cup {<<Last(G)>> : G \in Schema}) => IsList(data[i].v)
        /\ IsList(data[i].v) => \A j \in DOMAIN data[i].v.items : WellShaped(data[i].v.items[j])

\* C10: in DataProcessor a submission (or an ancestor element) whose key of a
\* repeat group is absent or holds an empty array contributes no row to the
\* table of the group, and raises no error; the rows of the other submissions
\* are what they are without it, and the main table keeps its row for it.
C10_AbsentGroupNoRows ==
    dp.run =>
        /\ (\A k \in DOMAIN dp.subs : WellShaped(dp.subs[k])) => ~dp.err
        /\ ~dp.err =>
              \A G \in Schema :
                  LET chain == Chain(Schema, G)
                      kept == SelectSeq(dp.subs, LAMBDA sub : CountAt(sub, chain) # 0)
                  IN /\ \A k \in DOMAIN dp.subs : \A j \in DOMAIN Rows(dp, G) :
                           (CountAt(dp.subs[k], chain) = 0) =>
                               Cell(Rows(dp, G)[j], "_parent_id") # Scalar(IdOf(dp.subs[k]))
                     /\ Rows(dp, G) = Rows(process_submissions(dp.structure, kept), G)
                     /\ Len(Rows(dp, <<>>)) = Len(dp.subs)
                     /\ (G \in PureGroups(2)) =>
                           \A k \in DOMAIN dp.subs : \A i \in DOMAIN ArrayAt(dp.subs[k], <<G[1]>>) :
                               (ArrayAt(ArrayAt(dp.subs[k], <<G[1]>>)[i], G) = <<>>) =>
                                   \A j \in DOMAIN Rows(dp, G) :
                                       Cell(Rows(dp, G)[j], "_" \o G[1] \o "_id")
                                           # Scalar(IdOf(dp.subs[k]) \o Suffix[i])

\* C10 witness: a batch of a submission without the key "members" and one
\* with members was flattened without error, and the members table has the
\* rows of the second alone
C10_Witness ==
    /\ dp.run /\ ~dp.err /\ Len(dp.subs) = 2
    /\ ~HasKey(dp.subs[1], <<"members">>)
    /\ Len(ArrayAt(dp.subs[2], <<"members">>)) = 2
    /\ Len(Rows(dp, <<"members">>)) = 2
    /\ \A j \in 1..2 : Rows(dp, <<"members">>)[j]["_parent_id"] = Scalar("S2")

\* C11 (as claimed): for a non-empty submission list the tables
\* DataProcessor.process_submissions returns are the main table at index 0,
\* then the repeat-group tables in ascending level, groups of equal level in
\* ascending sequence.
C11_TableOrder ==
    (dp.run /\ ~dp.err /\ dp.subs # <<>>) =>
        LET tables == dp.dataframes
            group(i) == Lookup(dp.structure.repeat_groups, tables[i].of)
        IN /\ Len(tables) >= 1
           /\ tables[1].of = <<>>
           /\ \A i \in 2..Len(tables) : tables[i].of # <<>>
           /\ \A i, j \in 2..Len(tables) :
                  i < j => \/ group(i).level < group(j).level
                           \/ /\ group(i).level = group(j).level
                              /\ group(i).sequence < group(j).sequence

\* the elements of the arrays of group G inside a record, in traversal order:
\* the elements of the array at G's first segment, inside each of them those
\* of the array at the first two segments, and so on (n is the number of
\* segments of the key to read next)
RECURSIVE ElementsAt(_, _, _)
ElementsAt(data, G, n) ==
    IF n > Len(G) THEN <<data>>
    ELSE Concat([i \in DOMAIN ArrayAt(data, SubSeq(G, 1, n)) |->
                    ElementsAt(ArrayAt(data, SubSeq(G, 1, n))[i], G, n + 1)])

\* the elements the rows of table G come from, submission by submission, each
\* with the id of its submission
ExpectedOrder(subs, G) ==
    Concat([k \in DOMAIN subs |->
              [i \in DOMAIN ElementsAt(subs[k], G, 1) |->
                  [id |-> IdOf(subs[k]), item |-> ElementsAt(subs[k], G, 1)[i]]]])

\* a row is the row of an element: it carries the id of the element's
\* submission and the element's answers
RowOf(row, e, G) ==
    /\ G # <<>> => Cell(row, "_parent_id") = Scalar(e.id)
    /\ \A i \in DOMAIN e.item :
          (Cardinality(FieldsFor(e.item, Last(e.item[i].k))) = 1
              /\ i \in FieldsFor(e.item, Last(e.item[i].k))
              /\ Last(e.item[i].k) \in DOMAIN row)
          => row[Last(e.item[i].k)] = e.item[i].v

\* C12: in every table DataProcessor.process_submissions returns, the rows
\* are in submission input order and, within a submission, in the order of
\* the elements of the traversed arrays (ancestor elements in array order,
\* inside each its child elements in array order): row n is the row of the
\* n-th element of that traversal.
C12_RowOrder ==
    (dp.run /\ ~dp.err) =>
        \A t \in DOMAIN dp.dataframes :
            LET G == dp.dataframes[t].of
                rows == dp.dataframes[t].df.rows
                expected == ExpectedOrder(dp.subs, G)
            IN /\ Len(rows) = Len(expected)
               /\ \A n \in DOMAIN rows : RowOf(rows[n], expected[n], G)

\* C12 witness: a table of a nested group with rows of two submissions, two
\* of them of one submission and of different ancestor elements
C12_Witness ==
    /\ dp.run /\ ~dp.err /\ Len(dp.subs) = 2
    /\ \E t \in DOMAIN dp.dataframes :
          LET rows == dp.dataframes[t].df.rows
          IN /\ Len(dp.dataframes[t].of) = 2
             /\ \E a, b, c \in DOMAIN rows :
                   /\ a < b /\ b < c
                   /\ rows[a]["_parent_id"] = Scalar("S1")
                   /\ rows[b]["_parent_id"] = Scalar("S2")
                   /\ rows[c]["_parent_id"] = Scalar("S2")
                   /\ rows[b] # rows[c]
                   /\ Cell(rows[b], id_column(dp.dataframes[t].of[1]))
                        # Cell(rows[c], id_column(dp.dataframes[t].of[1]))

\* the tables a structure can have: the main table and one per repeat group
TableNames(struct) == {<<>>} \cup RepeatNames(struct)

\* C13: flattening one submission never depends on another one: however the
\* list that was flattened is cut in two lists A and B, every table's rows
\* are the rows DataProcessor.process_submissions produces for A followed by
\* the rows it produces for B.
C13_Concatenation ==
    (dp.run /\ ~dp.err) =>
        \A i \in 0..Len(dp.subs) :
            LET A == SubSeq(dp.subs, 1, i)
                B == SubSeq(dp.subs, i + 1, Len(dp.subs))
                ofA == process_submissions(dp.structure, A)
                ofB == process_submissions(dp.structure, B)
            IN /\ ~ofA.err /\ ~ofB.err
               /\ \A G \in TableNames(dp.structure) :
                     Rows(dp, G) = Rows(ofA, G) \o Rows(ofB, G)

\* C13 witness: two submissions were flattened, both gave rows to the table
\* of a repeat group, and the second leaves out an answer the first gave
C13_Witness ==
    /\ dp.run /\ ~dp.err /\ Len(dp.subs) = 2
    /\ \E G \in RepeatNames(dp.structure) :
          /\ \E n \in DOMAIN Rows(dp, G) : Rows(dp, G)[n]["_parent_id"] = Scalar("S1")
          /\ \E n \in DOMAIN Rows(dp, G) : Rows(dp, G)[n]["_parent_id"] = Scalar("S2")
    /\ \E c \in DOMAIN Rows(dp, <<>>)[1] :
          /\ Rows(dp, <<>>)[1][c] # None
          /\ Rows(dp, <<>>)[2][c] = None

RECURSIVE DeclaredNodes(_, _, _)
DeclaredNodes(questions, groups, path) ==
    [i \in DOMAIN questions |->
        [kind |-> "question", local |-> questions[i].name, path |-> path, repeat |-> FALSE]]
    \o Concat([i \in DOMAIN groups |->
                 << [kind |-> "group", local |-> groups[i].name, path |-> path,
                     repeat |-> ("repeat" \in DOMAIN groups[i].data /\ groups[i].data.repeat)] >>
                 \o DeclaredNodes(IF "questions" \in DOMAIN groups[i].data
                                  THEN groups[i].data.questions ELSE <<>>,
                                  IF "groups" \in DOMAIN groups[i].data
                                  THEN groups[i].data.groups ELSE <<>>,
                                  path \o <<groups[i].name>>)])

\* the questions and the repeat groups a form declares, in document order
FormNodes(f) ==
    SelectSeq(DeclaredNodes(f.questions, f.groups, <<>>),
              LAMBDA n : n.kind = "question" \/ n.repeat)

\* the fully-qualified name of a declared node
FullName(n) == n.path \o <<n.local>>

\* the object a structure holds for a declared node
Parsed(struct, n) ==
    IF n.kind = "question" THEN Lookup(struct.questions, FullName(n))
    ELSE Lookup(struct.repeat_groups, FullName(n))

\* C16 (as claimed): the sequence numbers StructureParser.parse assigns
\* increase strictly in document order over all questions and all repeat
\* groups: a node declared before another has the smaller sequence, and no
\* two nodes share a sequence number.
C16_SequenceIncreasing ==
    structure.run =>
        LET nodes == FormNodes(form)
        IN \A i, j \in DOMAIN nodes :
              i < j => Parsed(structure, nodes[i]).sequence < Parsed(structure, nodes[j]).sequence

\* C17 (as claimed): StructureParser.parse fails with SchemaError and
\* produces no SurveyStructure when a node has no resolvable name or when
\* the fully-qualified name of a repeat group is one that was registered
\* before it; so a structure is produced only for a form whose nodes all
\* have a name and whose repeat groups collide with no earlier node.
C17_SchemaErrorOnCollision ==
    structure.run =>
        LET nodes == FormNodes(form)
        IN /\ \A i \in DOMAIN nodes : nodes[i].local # ""
           /\ \A i, j \in DOMAIN nodes :
                 (i < j /\ nodes[j].kind = "group") => FullName(nodes[i]) # FullName(nodes[j])

\* C18 (as claimed): in every SurveyStructure parse returns, the
\* fully-qualified names are unique across questions and repeat groups
\* together: no question shares its name with another question or with a
\* repeat group.
C18_NamesUnique ==
    structure.run =>
        LET names == [i \in DOMAIN structure.questions |-> structure.questions[i].v.name]
                     \o [i \in DOMAIN structure.repeat_groups |-> structure.repeat_groups[i].v.name]
        IN \A i, j \in DOMAIN names : i # j => names[i] # names[j]

\* the declared nodes of a form, plain groups included
AllNodes(f) == DeclaredNodes(f.questions, f.groups, <<>>)

\* an object of a structure is the one parsed from the i-th declared node:
\* its name is its path, "/", the node's own name (the node's own name alone
\* in the root), and its path, when not empty, is the fully-qualified name
\* of a group declared before it
ParsedFrom(obj, nodes, i) ==
    /\ obj.name = (IF obj.path = <<>> THEN <<nodes[i].local>>
                   ELSE obj.path \o <<nodes[i].local>>)
    /\ obj.path = nodes[i].path
    /\ obj.path # <<>> =>
          \E j \in 1..(i - 1) : nodes[j].kind = "group" /\ FullName(nodes[j]) = obj.path

\* C19: every Question and every RepeatGroup parse returns has name = path +
\* "/" + its own name (its own name when the path is empty), and a path that
\* is not empty is the fully-qualified name of a group visited earlier.
C19_NameIsPathPlusLocal ==
    structure.run =>
        LET nodes == AllNodes(form)
        IN /\ \A e \in Range(structure.questions) :
                 e.v.name = e.k
                 /\ \E i \in DOMAIN nodes : nodes[i].kind = "question" /\ ParsedFrom(e.v, nodes, i)
           /\ \A e \in Range(structure.repeat_groups) :
                 e.v.name = e.k
                 /\ \E i \in DOMAIN nodes :
                       nodes[i].kind = "group" /\ nodes[i].repeat /\ ParsedFrom(e.v, nodes, i)

\* C19 witness: a structure with a question and a repeat group two groups
\* deep, one of the groups a plain group
C19_Witness ==
    /\ structure.run
    /\ \E e \in Range(structure.questions) : Len(e.v.path) >= 2
    /\ \E e \in Range(structure.repeat_groups) :
          Len(e.v.path) = 1 /\ e.v.path \notin Keys(structure.repeat_groups)

\* C20 (as claimed): a malformed submission never aborts the batch: when a
\* submission holds a scalar where the array of a repeat group is expected,
\* DataProcessor.process_submissions still returns, and the tables it
\* returns hold every row of the well-formed submissions, in their order.
C20_MalformedNeverAborts ==
    dp.run =>
        /\ ~dp.err
        /\ \A G \in TableNames(dp.structure) \ {<<>>} :
              LET good == SelectSeq(dp.subs, WellShaped)
                  due == ExpectedOrder(good, G)
                  rows == Rows(dp, G)
              IN FramesOf(dp, G) # {} =>
                    \E pos \in [DOMAIN due -> DOMAIN rows] :
                        /\ \A a, b \in DOMAIN due : a < b => pos[a] < pos[b]
                        /\ \A a \in DOMAIN due : RowOf(rows[pos[a]], due[a], G)

\* the keys a row of the builder path may have when undeclared fields are
\* dropped: the fixed metadata columns (and what their keys reduce to), the
\* linkage columns, and the names of the declared questions
DeclaredKeys(f) ==
    Range(BUILDER_METADATA_COLUMNS) \cup {"instanceID", "uuid", "rootUuid"}
    \cup {"_parent_id"}
    \cup {id_column(n.local) : n \in {m \in Range(AllNodes(f)) : m.kind = "group"}}
    \cup {n.local : n \in {m \in Range(AllNodes(f)) : m.kind = "question"}}

\* C21 (as claimed): in create_dataframes_from_submissions a scalar field of a
\* submission or of a repeat element that has no declared Question and is no
\* fixed metadata column is dropped: no output row has it as a key.
C21_UndeclaredFieldDropped ==
    (bd.run /\ ~bd.err) =>
        \A t \in DOMAIN bd.dataframes :
            bd.dataframes[t].df.columns \subseteq DeclaredKeys(form)

\* the fully-qualified names of the questions a form declares
QuestionNames(f) == {FullName(n) : n \in {m \in Range(AllNodes(f)) : m.kind = "question"}}

\* a record of a repeat group holds a scalar field no question declares, or
\* one of its nested elements does
RECURSIVE HasUndeclared(_, _)
HasUndeclared(data, f) ==
    \E i \in DOMAIN data :
        IF IsList(data[i].v)
        THEN \E j \in DOMAIN data[i].v.items : HasUndeclared(data[i].v.items[j], f)
        ELSE data[i].k \notin QuestionNames(f)

\* the shape of a submission disagrees with the schema: a scalar where the
\* array of a repeat group is expected, or an element of a repeat group with
\* a field the schema does not declare
Disagrees(submission, f) ==
    \/ ~WellShaped(submission)
    \/ \E i \in DOMAIN submission :
          /\ IsList(submission[i].v)
          /\ submission[i].k \in Schema
          /\ \E j \in DOMAIN submission[i].v.items : HasUndeclared(submission[i].v.items[j], f)

\* C22 (as claimed): the flattening engine has a strict mode: a batch with a
\* submission whose shape disagrees with the schema raises ValidationError,
\* the batch is aborted and no table is returned.  DataProcessor takes no
\* mode, so the claim is stated of the one behaviour it has.
C22_StrictModeAborts ==
    (dp.run /\ \E k \in DOMAIN dp.subs : Disagrees(dp.subs[k], form)) =>
        (dp.err /\ dp.dataframes = <<>>)

\* a key as the string it is in the record: its segments joined with "/"
RECURSIVE JoinSlash(_)
JoinSlash(key) ==
    IF Len(key) = 1 THEN key[1] ELSE key[1] \o "/" \o JoinSlash(Tail(key))

\* in the main table of a result, scalar fields of a submission that reduce
\* to one last segment fill one column, which holds the value of the last of
\* them, and no column is named by a full key
LaterOverwrites(res) ==
    (res.run /\ ~res.err /\ res.subs # <<>>) =>
        \A k \in DOMAIN res.subs :
            LET data == res.subs[k]
                row == Rows(res, <<>>)[k]
            IN \A i \in DOMAIN data :
                  LET same == FieldsFor(data, Last(data[i].k))
                  IN (i \in same /\ Cardinality(same) >= 2) =>
                        /\ Last(data[i].k) \in DOMAIN row
                        /\ row[Last(data[i].k)] = data[Max(same)].v
                        /\ Len(data[i].k) > 1 => JoinSlash(data[i].k) \notin DOMAIN row

\* C25 (as claimed): when two scalar fields of a record reduce to the same
\* last path segment ("vivienda/material" and "techo/material") they fill
\* the same column of the same row, the later field of the record overwrites
\* the earlier one, no error is raised and no second column is created, in
\* DataProcessor and in create_dataframes_from_submissions.
C25_LaterFieldOverwrites == LaterOverwrites(dp) /\ LaterOverwrites(bd)

\* does some node of a level of a form description carry an explicit
\* 'sequence'
RECURSIVE DeclaresSequence(_, _)
DeclaresSequence(questions, groups) ==
    \/ \E i \in DOMAIN questions : "sequence" \in DOMAIN questions[i].data
    \/ \E i \in DOMAIN groups :
          \/ "sequence" \in DOMAIN groups[i].data
          \/ DeclaresSequence(IF "questions" \in DOMAIN groups[i].data
                              THEN groups[i].data.questions ELSE <<>>,
                              IF "groups" \in DOMAIN groups[i].data
                              THEN groups[i].data.groups ELSE <<>>)

\* C26 (as claimed): calling parse() again on the same StructureParser
\* returns an equal SurveyStructure: for a form whose nodes carry no explicit
\* 'sequence' the structure of every later parse equals the structure of
\* the parse before it, sequence numbers included.
C26_ParseAgainEqual ==
    [][(structure.run /\ ~DeclaresSequence(form.questions, form.groups))
          => structure' = structure]_vars

\* an optional string argument is given: it is not None and not empty
Given(x) == x # None /\ x.v # ""

\* C23: the params Kobo.get_data builds: with a query, params['query'] is
\* that query and submitted_after is ignored; with submitted_after only,
\* params['query'] is the _submission_time $gt filter on it; start and limit
\* are each sent exactly when they are not None (start = 0 is sent); with no
\* argument no parameter is sent.  (A query or submitted_after that is the
\* empty string counts as not given.)
C23_GetDataParams ==
    gd.run =>
        /\ Keys(gd.params) \subseteq {"query", "start", "limit"}
        /\ Given(gd.query) =>
              HasKey(gd.params, "query") /\ Lookup(gd.params, "query") = gd.query
        /\ (~Given(gd.query) /\ gd.submitted_after = Scalar("2024-01-01T00:00:00")) =>
              /\ HasKey(gd.params, "query")
              /\ Lookup(gd.params, "query") =
                    Scalar("{\"_submission_time\": {\"$gt\": \"2024-01-01T00:00:00\"}}")
        /\ (~Given(gd.query) /\ ~Given(gd.submitted_after)) => ~HasKey(gd.params, "query")
        /\ HasKey(gd.params, "start") <=> gd.start # None
        /\ HasKey(gd.params, "start") => Lookup(gd.params, "start") = gd.start
        /\ HasKey(gd.params, "limit") <=> gd.limit # None
        /\ HasKey(gd.params, "limit") => Lookup(gd.params, "limit") = gd.limit
        /\ (gd.query = None /\ gd.submitted_after = None /\ gd.start = None /\ gd.limit = None)
              => gd.params = <<>>

\* C23 witness: a call with submitted_after, start = 0 and a limit and no
\* query, which sends the filter, start and limit
C23_Witness ==
    /\ gd.run
    /\ gd.query = None /\ Given(gd.submitted_after)
    /\ gd.start = Scalar(0) /\ gd.limit = Scalar(2)
    /\ Len(gd.params) = 3

\* the requests among the events of a call, and the events that are sleeps
IsRequest(ev) == ev.e = "request"

Requests(c) == SelectSeq(c.events, IsRequest)

\* the call of _make_request_raw is over
Over(c) == c.pc \in {"returned", "raised"}

\* the retry loop, as far as it shows in a state: at most max_retries
\* requests; requests and sleeps alternate, the sleep after the request of
\* pass k (counted from 0) being of 2^k seconds, so that a request that is
\* not the first comes after a transport exception and that sleep; the call
\* returns the first ok response; after max_retries transport exceptions it
\* raises KoboAPIError with no sleep after the last one
RetryLoopSafe(c) ==
    c.max_retries >= 1 =>
        /\ Len(Requests(c)) <= c.max_retries
        /\ \A i \in DOMAIN c.events :
              IF i % 2 = 1
              THEN /\ c.events[i].e = "request"
                   /\ i < Len(c.events) => c.events[i].outcome = TransportError
              ELSE /\ c.events[i].e = "sleep"
                   /\ c.events[i].secs = Pow2((i \div 2) - 1)
        /\ c.pc = "returned" =>
              /\ c.events # <<>>
              /\ Last(c.events).e = "request"
              /\ Last(c.events).outcome.kind = "response"
              /\ ok(Last(c.events).outcome)
              /\ c.raw = Last(c.events).outcome
        /\ (c.pc = "request" /\ c.events # <<>>) => Last(c.events).e = "sleep"
        /\ c.pc = "raised" =>
              /\ c.events # <<>>
              /\ Last(c.events).e = "request"
              /\ Last(c.events).outcome = TransportError =>
                    /\ Len(Requests(c)) = c.max_retries
                    /\ c.raw = Scalar("KoboAPIError")

\* C28: Client._make_request_raw always terminates, and with max_retries =
\* n >= 1 it sends at most n requests, sends request k+1 only after request
\* k raised a transport exception and after sleeping 2^k seconds, returns
\* the first response that is ok, and raises KoboAPIError after the n-th
\* consecutive transport failure without sleeping again.
C28_RetryLoopTerminates ==
    /\ [](RetryLoopSafe(client))
    /\ (client.pc \in {"request", "sleep", "sleep_last"}) ~> Over(client)

\* C28 witness: a call with max_retries = 3 that ended in KoboAPIError after
\* three transport exceptions and sleeps of 1 and 2 seconds
C28_Witness ==
    /\ client.max_retries = 3
    /\ client.pc = "raised"
    /\ Len(client.events) = 5
    /\ client.events[2] = [e |-> "sleep", secs |-> 1]
    /\ client.events[4] = [e |-> "sleep", secs |-> 2]
    /\ client.events[5].outcome = TransportError

\* C29: a response whose status is not ok is never retried: the call raises
\* on the first such response, AuthenticationError for 401,
\* ResourceNotFoundError for 404 and KoboAPIError for any other status, and
\* sends no further request.
C29_NotOkNeverRetried ==
    \A i \in DOMAIN client.events :
        (client.events[i].e = "request"
            /\ client.events[i].outcome.kind = "response"
            /\ ~ok(client.events[i].outcome)) =>
        /\ i = Len(client.events)
        /\ client.pc = "raised"
        /\ client.raw = Scalar(CASE client.events[i].outcome.status = 401 -> "AuthenticationError"
                                 [] client.events[i].outcome.status = 404 -> "ResourceNotFoundError"
                                 [] OTHER -> "KoboAPIError")

\* C29 witness: a call that got a 404 after a transport exception and a
\* sleep, and raised ResourceNotFoundError
C29_Witness ==
    /\ client.pc = "raised"
    /\ Len(client.events) = 3
    /\ client.events[3].outcome = Response(404, TRUE)
    /\ client.raw = Scalar("ResourceNotFoundError")

(***************************************************************************)
(* XLSFormDataStructureBuilder as an object (builder.py 6-172): it is      *)
(* built from a form, then process_submission, create_dataframes and       *)
(* export_structure_summary are called on it in any order.  A flattened    *)
(* key is a sequence of segments [s, idx]: "members[0]/members/name" is    *)
(* members with index 0, members, name.  The values of a submission are    *)
(* scalars and lists of dicts (the API nests no dict in a dict).           *)
(***************************************************************************)
\* a segment without an index, and a '/'-separated name as segments
Seg(s) == [s |-> s, idx |-> <<>>]

Plain(name) == [j \in DOMAIN name |-> Seg(name[j])]

\* f"{full_key}[{i}]"
Indexed(full_key, i) == [full_key EXCEPT ![Len(full_key)].idx = <<i>>]

\* the names of the forms and submissions one of which is the beginning of
\* another, character by character
ProperPrefixes ==
    {<<"a", "address">>, <<"a", "age">>, <<"a", "alfa">>, <<"a", "area">>,
     <<"b", "barrio">>}

\* s.startswith(p) on two names without '/'
StrStartsWith(s, p) == s = p \/ <<p, s>> \in ProperPrefixes

\* key.startswith(name): str.startswith compares characters, so the last
\* segment of name need only begin the segment of key at its place (an index
\* follows the name of its segment)
KeyStartsWith(key, name) ==
    \/ name = <<>>
    \/ /\ Len(key) >= Len(name)
       /\ \A j \in 1..(Len(name) - 1) : key[j] = Seg(name[j])
       /\ StrStartsWith(key[Len(name)].s, name[Len(name)])

\* d.update(other)
RECURSIVE DictUpdate(_, _)
DictUpdate(d, other) ==
    IF other = <<>> THEN d
    ELSE DictUpdate(DictSet(d, Head(other).k, Head(other).v), Tail(other))

\* XLSFormDataStructureBuilder._flatten_submission; flatten_list is its loop
\* over the items of a list value, from item i on
RECURSIVE flatten_submission(_, _)
RECURSIVE flatten_list(_, _, _)
flatten_list(items, full_key, i) ==
    IF i > Len(items) THEN <<>>
    ELSE DictUpdate(flatten_submission(items[i], Indexed(full_key, i - 1)),
                    flatten_list(items, full_key, i + 1))

flatten_submission(data, prefix) ==
    IF data = <<>> THEN <<>>
    ELSE LET full_key == prefix \o Plain(Head(data).k)
             value == Head(data).v
         IN DictUpdate(IF IsList(value)
                       THEN flatten_list(value.items, full_key, 1)
                       ELSE << [k |-> full_key, v |-> value] >>,
                       flatten_submission(Tail(data), prefix))

\* any(key.startswith(repeat_group) for repeat_group in self.repeat_groups)
in_repeat_group(builder, key) ==
    \E i \in DOMAIN builder.repeat_groups : KeyStartsWith(key, builder.repeat_groups[i].k)

\* XLSFormDataStructureBuilder._find_repeat_group, for a key that is in one:
\* the first group, in dict order, the key starts with
find_repeat_group(builder, key) ==
    LET matches == {i \in DOMAIN builder.repeat_groups :
                       KeyStartsWith(key, builder.repeat_groups[i].k)}
    IN builder.repeat_groups[CHOOSE i \in matches : \A j \in matches : i <= j].k

\* the loop of process_submission over the flattened items
RECURSIVE separate(_, _, _)
separate(builder, flattened, processed) ==
    IF flattened = <<>> THEN processed
    ELSE LET key == Head(flattened).k
             value == Head(flattened).v
         IN separate(builder, Tail(flattened),
                     IF in_repeat_group(builder, key)
                     THEN LET repeat_group == find_repeat_group(builder, key)
                          IN [processed EXCEPT !.repeat_data =
                                 DictSet(@, repeat_group,
                                         Append(Get(@, repeat_group, <<>>),
                                                << [k |-> key, v |-> value] >>))]
                     ELSE [processed EXCEPT !.main_data = DictSet(@, key, value)])

\* XLSFormDataStructureBuilder.process_submission: it reads
\* self.repeat_groups and returns a new dict
process_submission(builder, submission_data) ==
    separate(builder, flatten_submission(submission_data, <<>>),
             [main_data |-> <<>>, repeat_data |-> <<>>])

\* all_repeat_data[repeat_group].extend(repeat_items), for the items of
\* processed['repeat_data']
RECURSIVE extend_all(_, _)
extend_all(all_repeat_data, repeat_data) ==
    IF repeat_data = <<>> THEN all_repeat_data
    ELSE extend_all(DictSet(all_repeat_data, Head(repeat_data).k,
                            Get(all_repeat_data, Head(repeat_data).k, <<>>) \o Head(repeat_data).v),
                    Tail(repeat_data))

\* the loop of create_dataframes over the submissions
RECURSIVE collect(_, _, _)
collect(builder, subs, all) ==
    IF subs = <<>> THEN all
    ELSE LET processed == process_submission(builder, Head(subs))
         IN collect(builder, Tail(subs),
                    [all_main_data |-> Append(all.all_main_data, processed.main_data),
                     all_repeat_data |-> extend_all(all.all_repeat_data, processed.repeat_data)])

\* a segment and a key as the strings they are
SegStr(seg) == IF seg.idx = <<>> THEN seg.s ELSE seg.s \o "[" \o ToString(seg.idx[1]) \o "]"

RECURSIVE KeyStr(_)
KeyStr(key) ==
    IF Len(key) = 1 THEN SegStr(key[1]) ELSE SegStr(key[1]) \o "/" \o KeyStr(Tail(key))

\* a dict as a row of pd.DataFrame(list of dicts)
as_row(d) == [c \in {KeyStr(d[i].k) : i \in DOMAIN d} |->
                 d[CHOOSE i \in DOMAIN d : KeyStr(d[i].k) = c].v]

\* XLSFormDataStructureBuilder.create_dataframes: a dict 'main' / repeat
\* group -> frame; a group without data has no frame
create_dataframes(builder, subs) ==
    LET all == collect(builder, subs, [all_main_data |-> <<>>, all_repeat_data |-> <<>>])
        frame(rows) == DataFrame([i \in DOMAIN rows |-> as_row(rows[i])])
        groups == SelectSeq(all.all_repeat_data, LAMBDA e : e.v # <<>>)
    IN (IF all.all_main_data # <<>>
        THEN << [k |-> "main", v |-> frame(all.all_main_data)] >>
        ELSE <<>>)
       \o [i \in DOMAIN groups |-> [k |-> KeyStr(Plain(groups[i].k)), v |-> frame(groups[i].v)]]

\* XLSFormDataStructureBuilder._group_questions_by_path: the loop over
\* self.flat_questions, grouped being the defaultdict
RECURSIVE group_questions_by_path(_, _)
group_questions_by_path(flat_questions, grouped) ==
    IF flat_questions = <<>> THEN grouped
    ELSE LET q_info == Head(flat_questions).v
             path == IF q_info.path # <<>> THEN q_info.path ELSE <<"root">>
         IN group_questions_by_path(Tail(flat_questions),
                                    DictSet(grouped, path,
                                            Append(Get(grouped, path, <<>>),
                                                   Head(flat_questions).k)))

\* XLSFormDataStructureBuilder._create_structure_map: the root questions with
\* their types, then the repeat groups with the questions under them
create_structure_map(builder) ==
    LET main == SelectSeq(builder.flat_questions, LAMBDA e : e.v.path = <<>>)
        under(group_name) ==
            SelectSeq(builder.flat_questions,
                      LAMBDA e : e.v.path # <<>> /\ KeyStartsWith(Plain(e.v.path), group_name))
    IN DictUpdate([i \in DOMAIN main |-> [k |-> main[i].k, v |-> main[i].v.type]],
                  [i \in DOMAIN builder.repeat_groups |->
                      [k |-> builder.repeat_groups[i].k,
                       v |-> [type |-> "repeat_group",
                              questions |-> [j \in DOMAIN under(builder.repeat_groups[i].k) |->
                                               under(builder.repeat_groups[i].k)[j].k]]]])

\* XLSFormDataStructureBuilder.export_structure_summary; question_types is
\* list(set(...)), a list in no defined order, kept as the set
export_structure_summary(builder) ==
    [total_questions |-> Len(builder.flat_questions),
     repeat_groups |-> [i \in DOMAIN builder.repeat_groups |-> builder.repeat_groups[i].k],
     question_types |-> {builder.flat_questions[i].v.type : i \in DOMAIN builder.flat_questions},
     questions_by_group |-> group_questions_by_path(builder.flat_questions, <<>>),
     structure_map |-> create_structure_map(builder)]

\* the API wrapper at rest
ApiIdle ==
    /\ gd = NotRun
    /\ client = IdleClient(DEFAULT_MAX_RETRIES)

\* XLSFormDataStructureBuilder(form): the object, the calls made on it since
\* (called), what the last of them returned, and the last summary exported
\* with the calls that came before it
InitBuilder ==
    /\ form \in Forms
    /\ self_sequence = 0
    /\ parses = 0
    /\ structure = NotRun
    /\ submissions = <<>>
    /\ dp = NotRun
    /\ dp_prev = NotRun
    /\ bd = NotRun
    /\ ApiIdle
    /\ xb = [run |-> TRUE, builder |-> build_structure(form), called |-> {},
             returned |-> None, summary |-> NotRun]
    /\ ex = NotRun
    /\ gq = NotRun

\* process_submission on a builder that registers the keys it files under
\* main_data as questions of the root
BuilderProcessSubmission_registering ==
    /\ xb.run
    /\ \E k \in DOMAIN submissions :
          LET processed == process_submission(xb.builder, submissions[k])
              learnt == [i \in DOMAIN processed.main_data |->
                            [k |-> <<KeyStr(processed.main_data[i].k)>>,
                             v |-> [type |-> None, label |-> None, required |-> FALSE,
                                    sequence |-> None, list_name |-> None,
                                    original_name |-> KeyStr(processed.main_data[i].k),
                                    path |-> <<>>]]]
          IN xb' = [xb EXCEPT !.called = @ \cup {"process_submission"},
                              !.returned = [processed |-> processed],
                              !.builder.flat_questions = DictUpdate(@, learnt)]
    /\ UNCHANGED <<pipeline, api, ex, gq>>

\* builder.process_submission(submission), for one of the submissions
\* received: the attributes of the builder are read, none is assigned
BuilderProcessSubmission ==
    /\ xb.run
    /\ \E k \in DOMAIN submissions :
          xb' = [xb EXCEPT !.called = @ \cup {"process_submission"},
                           !.returned = [processed |->
                                            process_submission(xb.builder, submissions[k])]]
    /\ UNCHANGED <<pipeline, api, ex, gq>>

\* builder.create_dataframes(submissions)
BuilderCreateDataframes ==
    /\ xb.run
    /\ xb' = [xb EXCEPT !.called = @ \cup {"create_dataframes"},
                        !.returned = [dataframes |-> create_dataframes(xb.builder, submissions)]]
    /\ UNCHANGED <<pipeline, api, ex, gq>>

\* builder.export_structure_summary()
ExportStructureSummary ==
    /\ xb.run
    /\ xb' = [xb EXCEPT !.summary = [run |-> TRUE, after |-> xb.called,
                                     value |-> export_structure_summary(xb.builder)]]
    /\ UNCHANGED <<pipeline, api, ex, gq>>

NextBuilder ==
    Receive \/ BuilderProcessSubmission \/ BuilderCreateDataframes \/ ExportStructureSummary

SpecBuilder == InitBuilder /\ [][NextBuilder]_vars

\* the questions a form declares, in document order
DeclaredQuestions(f) ==
    SelectSeq(DeclaredNodes(f.questions, f.groups, <<>>), LAMBDA n : n.kind = "question")

\* the groups a form flags repeat, in document order
DeclaredRepeats(f) ==
    SelectSeq(DeclaredNodes(f.questions, f.groups, <<>>),
              LAMBDA n : n.kind = "group" /\ n.repeat)

\* the key of questions_by_group a question of this path goes under
GroupKey(path) == IF path = <<>> THEN <<"root">> ELSE path

\* what the claim says of the content of a summary
SummaryOf(value, f) ==
    /\ value.total_questions = Len(DeclaredQuestions(f))
    /\ value.repeat_groups = [i \in DOMAIN DeclaredRepeats(f) |-> FullName(DeclaredRepeats(f)[i])]
    /\ Keys(value.questions_by_group) =
          {GroupKey(DeclaredQuestions(f)[i].path) : i \in DOMAIN DeclaredQuestions(f)}
    /\ \A i \in DOMAIN value.questions_by_group :
          LET e == value.questions_by_group[i]
              here == SelectSeq(DeclaredQuestions(f), LAMBDA n : GroupKey(n.path) = e.k)
          IN /\ e.v = [j \in DOMAIN here |-> FullName(here[j])]
             /\ \A j \in DOMAIN value.questions_by_group : j # i =>
                   value.questions_by_group[j].k # e.k

EXCEL_SHEET_NAME_LIMIT == 31

\* survey_name: the default, the empty string, and a name with characters
\* safe_filename removes that is longer than a sheet name may be
SurveyNames == {"Survey", "", "Encuesta de Hogares y Viviendas: 2024"}

\* str.title() on the simple names of the repeat groups of the forms
Title(s) ==
    CASE s = "members" -> "Members"
      [] s = "household" -> "Household"
      [] s = "person" -> "Person"
      [] s = "g1" -> "G1"
      [] s = "g2" -> "G2"
      [] s = "g3" -> "G3"
      [] s = "rooms" -> "Rooms"
      [] s = "zeta" -> "Zeta"
      [] s = "alfa" -> "Alfa"
      [] s = "visits" -> "Visits"

\* utils.safe_filename on the names to_excel is given here: the letters,
\* digits, ' ', '-' and '_' are kept, spaces at the end dropped and the
\* others made '_', an empty result is 'unnamed', and the name is cut at
\* max_length; the labels, title-cased names and Sheet_n names have letters,
\* digits and '_' only and are shorter than the limit
safe_filename(name, max_length) ==
    CASE name = "" -> "unnamed"
      [] name = "Encuesta de Hogares y Viviendas: 2024" ->
            IF max_length = EXCEL_SHEET_NAME_LIMIT
            THEN "Encuesta_de_Hogares_y_Viviendas"
            ELSE "Encuesta_de_Hogares_y_Viviendas_2024"
      [] OTHER -> name

\* group.label or group.simple_name.title()
label_or_title(group) == IF group.label # "" THEN group.label ELSE Title(simple_name(group))

\* "while len(names) < count: names.append(f'Sheet_{len(names)}')"
RECURSIVE fill_generic(_, _)
fill_generic(names, count) ==
    IF Len(names) >= count THEN names
    ELSE fill_generic(Append(names, "Sheet_" \o ToString(Len(names))), count)

\* DataExporter._generate_sheet_names: the base name, one name for every
\* repeat group of the structure in the order of their levels, generic names
\* up to count, and the first count of them (the frames are not looked at)
generate_sheet_names(exporter_structure, count, base_name) ==
    LET sorted_groups == IF exporter_structure.run
                         THEN SortedByLevel(exporter_structure.repeat_groups, 0)
                         ELSE <<>>
    IN SubSeq(fill_generic(<< base_name >>
                           \o [i \in DOMAIN sorted_groups |-> label_or_title(sorted_groups[i].v)],
                           count),
              1, count)

\* DataExporter(structure).to_excel(dataframes, filepath, survey_name): the
\* sheets written, each with the group its frame was made for
to_excel(exporter_structure, dataframes, survey_name) ==
    IF dataframes = <<>> THEN [err |-> TRUE, sheets |-> <<>>]
    ELSE LET sheet_names == generate_sheet_names(exporter_structure, Len(dataframes),
                                                 survey_name)
         IN [err |-> FALSE,
             sheets |-> [i \in DOMAIN dataframes |->
                           [sheet_name |-> sheet_names[i],
                            clean_name |-> safe_filename(sheet_names[i], EXCEL_SHEET_NAME_LIMIT),
                            of |-> dataframes[i].of]]]

\* the list process_submissions returned is exported
ToExcel ==
    /\ dp.run /\ ~dp.err
    /\ \E exporter_structure \in {NotRun, dp.structure}, survey_name \in SurveyNames :
          LET r == to_excel(exporter_structure, dp.dataframes, survey_name)
          IN ex' = [run |-> TRUE, structure |-> exporter_structure,
                    survey_name |-> survey_name, err |-> r.err, sheets |-> r.sheets]
    /\ UNCHANGED <<pipeline, api, xb, gq>>

NextExport == Parse \/ Receive \/ ProcessSubmissions \/ ToExcel

SpecExport == Init /\ [][NextExport]_vars

\* C27 (as claimed): when to_excel is given the list process_submissions
\* returned for the structure of the exporter, the sheet name of every table
\* after the first is the label, or the title-cased simple name, of the
\* repeat group that produced the table, also when some repeat group
\* produced no rows.
C27_SheetNamesAligned ==
    (ex.run /\ ~ex.err /\ ex.structure.run) =>
        \A i \in 2..Len(ex.sheets) :
            ex.sheets[i].sheet_name
                = label_or_title(Lookup(ex.structure.repeat_groups, ex.sheets[i].of))

(***************************************************************************)
(* Kobo.get_questions (wrapper.py 99-160), called with unpack_multiples    *)
(* False: the loop over content['survey'], one item a step.  The dicts of  *)
(* the loop are nested in one another and current_group and group_stack    *)
(* hold references into them; here a group is named by its path from the   *)
(* root (<<>> is root_group) and the two dicts of every group are kept     *)
(* together, keyed by path.  Kobo gives the items of a level distinct      *)
(* names; here an item is named after its place in the list.               *)
(***************************************************************************)
\* most items in a survey
MaxItems == 5

\* the items that may stand at place n: the begin and end of a group and of
\* a repeat, a question, and an item with neither name nor $autoname
ItemsAt(n) ==
    {[type |-> t, name |-> "n" \o ToString(n)] : t \in {"begin_group", "begin_repeat", "text"}}
        \cup {[type |-> t, name |-> ""] : t \in {"end_group", "end_repeat", "note"}}

\* the body of the loop with the new group put on the stack
get_questions_step_pushing_new(st, item) ==
    IF item.type \in {"begin_group", "begin_repeat"}
    THEN LET new_group == st.current_group \o <<item.name>>
         IN [st EXCEPT !.root_group.groups =
                          DictSet(@, new_group, [label |-> "", sequence |-> st.sequence,
                                                 repeat |-> (item.type = "begin_repeat")]),
                       !.group_stack = Append(@, new_group),
                       !.current_group = new_group,
                       !.sequence = @ + 1]
    ELSE IF item.type \in {"end_group", "end_repeat"}
         THEN IF st.group_stack = <<>>
              THEN [st EXCEPT !.err = TRUE]
              ELSE [st EXCEPT !.current_group = Last(st.group_stack),
                              !.group_stack = SubSeq(@, 1, Len(@) - 1)]
         ELSE IF item.name # ""
              THEN [st EXCEPT !.root_group.questions =
                                 DictSet(@, st.current_group \o <<item.name>>,
                                         [type |-> item.type, sequence |-> st.sequence,
                                          label |-> item.name, required |-> FALSE]),
                              !.sequence = @ + 1]
              ELSE st

\* the body of the loop of get_questions for one item: a begin item stores a
\* new group in the current one, puts the current group on the stack and
\* goes into the new one; an end item (its type is not compared with the
\* begin) takes the current group from the stack, IndexError when the stack
\* is empty; any other item with a name is stored as a question of the
\* current group
get_questions_step(st, item) ==
    IF item.type \in {"begin_group", "begin_repeat"}
    THEN LET new_group == st.current_group \o <<item.name>>
         IN [st EXCEPT !.root_group.groups =
                          DictSet(@, new_group, [label |-> "", sequence |-> st.sequence,
                                                 repeat |-> (item.type = "begin_repeat")]),
                       !.group_stack = Append(@, st.current_group),
                       !.current_group = new_group,
                       !.sequence = @ + 1]
    ELSE IF item.type \in {"end_group", "end_repeat"}
         THEN IF st.group_stack = <<>>
              THEN [st EXCEPT !.err = TRUE]
              ELSE [st EXCEPT !.current_group = Last(st.group_stack),
                              !.group_stack = SubSeq(@, 1, Len(@) - 1)]
         ELSE IF item.name # ""
              THEN [st EXCEPT !.root_group.questions =
                                 DictSet(@, st.current_group \o <<item.name>>,
                                         [type |-> item.type, sequence |-> st.sequence,
                                          label |-> item.name, required |-> FALSE]),
                              !.sequence = @ + 1]
              ELSE st

\* get_questions before its loop: sequence = 0, an empty root_group,
\* group_stack = [root_group], current_group = root_group
InitQuestions ==
    /\ PipelineIdle
    /\ ApiIdle
    /\ xb = NotRun
    /\ ex = NotRun
    /\ gq = [run |-> TRUE, items |-> <<>>, err |-> FALSE, sequence |-> 0,
             root_group |-> [questions |-> <<>>, groups |-> <<>>],
             group_stack |-> << <<>> >>, current_group |-> <<>>]

\* the loop reads the next item of the survey
ReadItem ==
    /\ gq.run /\ ~gq.err
    /\ Len(gq.items) < MaxItems
    /\ \E item \in ItemsAt(Len(gq.items) + 1) :
          gq' = [get_questions_step(gq, item) EXCEPT !.items = Append(gq.items, item)]
    /\ UNCHANGED <<pipeline, api, xb, ex>>

NextQuestions == ReadItem

SpecQuestions == InitQuestions /\ [][NextQuestions]_vars

IsBegin(item) == item.type \in {"begin_group", "begin_repeat"}

IsEnd(item) == item.type \in {"end_group", "end_repeat"}

\* how many groups are open after the first k items
Depth(items, k) ==
    Cardinality({j \in 1..k : IsBegin(items[j])}) - Cardinality({j \in 1..k : IsEnd(items[j])})

\* every end closes a group that is open, and none is open at the end
Balanced(items) ==
    /\ \A k \in DOMAIN items : Depth(items, k) >= 0
    /\ Depth(items, Len(items)) = 0

\* the begin item at place j is not yet closed at place i
Encloses(items, j, i) ==
    /\ j < i
    /\ IsBegin(items[j])
    /\ \A k \in j..(i - 1) : Depth(items, k) >= Depth(items, j)

\* the names of the begin items open at place i, the outermost first
EnclosingPath(items, i) ==
    LET open == SelectSeq([j \in DOMAIN items |-> j], LAMBDA j : Encloses(items, j, i))
    IN [n \in DOMAIN open |-> items[open[n]].name]

\* C30: for a balanced item list get_questions ends without an exception,
\* with every group and every named question stored in the group opened by
\* the nearest begin item before it that is not yet closed (the root when
\* none is), nothing else stored, the repeat flag of a group true exactly
\* when a begin_repeat opened it, and the current group the root again.
C30_NestingRebuilt ==
    (gq.run /\ Balanced(gq.items)) =>
        /\ ~gq.err
        /\ gq.current_group = <<>>
        /\ \A i \in DOMAIN gq.items :
              LET item == gq.items[i]
                  place == EnclosingPath(gq.items, i) \o <<item.name>>
              IN /\ IsBegin(item) =>
                       /\ HasKey(gq.root_group.groups, place)
                       /\ Lookup(gq.root_group.groups, place).repeat
                             = (item.type = "begin_repeat")
                 /\ (~IsBegin(item) /\ ~IsEnd(item) /\ item.name # "") =>
                       HasKey(gq.root_group.questions, place)
        /\ Len(gq.root_group.groups) = Cardinality({i \in DOMAIN gq.items : IsBegin(gq.items[i])})
        /\ Len(gq.root_group.questions)
              = Cardinality({i \in DOMAIN gq.items :
                                ~IsBegin(gq.items[i]) /\ ~IsEnd(gq.items[i])
                                    /\ gq.items[i].name # ""})

\* a balanced list with a question inside a repeat inside a group
C30_Witness ==
    /\ gq.run /\ Balanced(gq.items) /\ Len(gq.items) = 5
    /\ gq.items[1].type = "begin_group" /\ gq.items[2].type = "begin_repeat"
    /\ HasKey(gq.root_group.questions, <<"n1", "n2", "n3">>)
    /\ gq.current_group = <<>>
====
